---- MODULE Spec2Model ----
(***************************************************************************)
(* GLSL entry-point legalization pass of the shader compiler               *)
(* (source/slang/slang-ir-glsl-legalize.cpp): the system-value resolver,   *)
(* the scalarized value model, the varying materializer and the            *)
(* entry-point rewriter, over a small model of the IR.                     *)
(***************************************************************************)
EXTENDS Integers, Sequences, FiniteSets, TLC

(***************************************************************************)
(* Strings that the pass inspects character by character (semantic         *)
(* spellings) are sequences of one-character strings, so that toLower is   *)
(* computed and not assumed.                                               *)
(***************************************************************************)
UpperChars == <<"A","B","C","D","E","F","G","H","I","J","K","L","M","N","O","P","Q","R","S","T","U","V","W","X","Y","Z">>

LowerChars == <<"a","b","c","d","e","f","g","h","i","j","k","l","m","n","o","p","q","r","s","t","u","v","w","x","y","z">>

ToLowerChar(c) ==
    IF \E i \in 1..26 : UpperChars[i] = c
    THEN LowerChars[CHOOSE i \in 1..26 : UpperChars[i] = c]
    ELSE c

toLower(s) == [i \in 1..Len(s) |-> ToLowerChar(s[i])]

ToUpperChar(c) ==
    IF \E i \in 1..26 : LowerChars[i] = c
    THEN UpperChars[CHOOSE i \in 1..26 : LowerChars[i] = c]
    ELSE c

\* The literals the resolver compares the lower-cased semantic with.
sv_position == <<"s","v","_","p","o","s","i","t","i","o","n">>

sv_target == <<"s","v","_","t","a","r","g","e","t">>

sv_clipdistance == <<"s","v","_","c","l","i","p","d","i","s","t","a","n","c","e">>

sv_culldistance == <<"s","v","_","c","u","l","l","d","i","s","t","a","n","c","e">>

sv_coverage == <<"s","v","_","c","o","v","e","r","a","g","e">>

sv_depth == <<"s","v","_","d","e","p","t","h">>

sv_depthgreaterequal == <<"s","v","_","d","e","p","t","h","g","r","e","a","t","e","r","e","q","u","a","l">>

sv_depthlessequal == <<"s","v","_","d","e","p","t","h","l","e","s","s","e","q","u","a","l">>

sv_dispatchthreadid == <<"s","v","_","d","i","s","p","a","t","c","h","t","h","r","e","a","d","i","d">>

sv_domainlocation == <<"s","v","_","d","o","m","a","i","n","l","o","c","a","t","i","o","n">>

sv_groupid == <<"s","v","_","g","r","o","u","p","i","d">>

sv_groupindex == <<"s","v","_","g","r","o","u","p","i","n","d","e","x">>

sv_groupthreadid == <<"s","v","_","g","r","o","u","p","t","h","r","e","a","d","i","d">>

sv_gsinstanceid == <<"s","v","_","g","s","i","n","s","t","a","n","c","e","i","d">>

sv_instanceid == <<"s","v","_","i","n","s","t","a","n","c","e","i","d">>

sv_isfrontface == <<"s","v","_","i","s","f","r","o","n","t","f","a","c","e">>

sv_outputcontrolpointid == <<"s","v","_","o","u","t","p","u","t","c","o","n","t","r","o","l","p","o","i","n","t","i","d">>

sv_pointsize == <<"s","v","_","p","o","i","n","t","s","i","z","e">>

sv_primitiveid == <<"s","v","_","p","r","i","m","i","t","i","v","e","i","d">>

sv_rendertargetarrayindex == <<"s","v","_","r","e","n","d","e","r","t","a","r","g","e","t","a","r","r","a","y","i","n","d","e","x">>

sv_sampleindex == <<"s","v","_","s","a","m","p","l","e","i","n","d","e","x">>

sv_stencilref == <<"s","v","_","s","t","e","n","c","i","l","r","e","f">>

sv_tessfactor == <<"s","v","_","t","e","s","s","f","a","c","t","o","r">>

sv_vertexid == <<"s","v","_","v","e","r","t","e","x","i","d">>

sv_viewportarrayindex == <<"s","v","_","v","i","e","w","p","o","r","t","a","r","r","a","y","i","n","d","e","x">>

nv_x_right == <<"n","v","_","x","_","r","i","g","h","t">>

nv_viewport_mask == <<"n","v","_","v","i","e","w","p","o","r","t","_","m","a","s","k">>

(***************************************************************************)
(* IR types.  A null IRType* is NullType.                                  *)
(***************************************************************************)
NullType == [k |-> "null"]

VoidType == [k |-> "void"]

BasicType(b) == [k |-> "basic", b |-> b]

VectorType(e, n) == [k |-> "vector", elem |-> e, n |-> n]

MatrixType(e, r, c) == [k |-> "matrix", elem |-> e, rows |-> r, cols |-> c]

ArrayType(e, n) == [k |-> "array", elem |-> e, count |-> n]

StreamType(e) == [k |-> "stream", elem |-> e]

StructType(name, fields) == [k |-> "struct", name |-> name, fields |-> fields]

\* Pointer-like types: op is "Out", "InOut" (both IROutTypeBase) or "Ptr".
PtrType(op, v) == [k |-> "ptr", op |-> op, value |-> v]

FuncType(params, result) == [k |-> "func", params |-> params, result |-> result]

isTypeEqual(a, b) == a = b

IsOutTypeBase(t) == t.k = "ptr" /\ t.op \in {"Out", "InOut"}

TFloat == BasicType("float")

TInt == BasicType("int")

TUInt == BasicType("uint")

TBool == BasicType("bool")

(***************************************************************************)
(* Layouts.  A resource-info table is a sequence of [kind, index] (on a    *)
(* VarLayout) or [kind, count] (on a TypeLayout) entries.                  *)
(***************************************************************************)
HasResourceInfo(infos, kind) == \E i \in 1..Len(infos) : infos[i].kind = kind

FindResourceInfo(infos, kind) ==
    infos[CHOOSE i \in 1..Len(infos) :
            /\ infos[i].kind = kind
            /\ \A j \in 1..(i-1) : infos[j].kind # kind]

NullLayout == [k |-> "null"]

SimpleTypeLayout(res) == [k |-> "simple", rules |-> "varying", res |-> res]

ArrayTypeLayout(elem, res) ==
    [k |-> "array", rules |-> elem.rules, elementTypeLayout |-> elem,
     uniformStride |-> 0, res |-> res]

StreamOutputTypeLayout(elem) ==
    [k |-> "stream", rules |-> elem.rules, elementTypeLayout |-> elem, res |-> <<>>]

StructTypeLayout(fields, res) ==
    [k |-> "struct", rules |-> "varying", fields |-> fields, res |-> res]

VarLayout(decl, sem, res, tl) ==
    [k |-> "var", varDecl |-> decl, systemValueSemantic |-> sem,
     res |-> res, typeLayout |-> tl]

(***************************************************************************)
(* The world an operation of the pass works on: the module's global        *)
(* parameters, the body of the function being rewritten, the data type of  *)
(* every instruction (indexed by instruction id), the builder's insertion  *)
(* point, the extension tracker, the diagnostic sink, and the abort flag   *)
(* (an assertion failure or SLANG_UNEXPECTED).                             *)
(***************************************************************************)
NoInfo == [found |-> FALSE, name |-> "", outerArrayName |-> "", requiredType |-> NullType]

Info(name, outer, req) ==
    [found |-> TRUE, name |-> name, outerArrayName |-> outer, requiredType |-> req]

requireGLSLExtension(w, name) == [w EXCEPT !.exts = @ \cup {name}]

requireGLSLVersion(w, version) == [w EXCEPT !.vers = @ \cup {version}]

diagnose(w, loc, code, arg) ==
    [w EXCEPT !.diags = Append(@, [loc |-> loc, code |-> code, arg |-> arg])]

Float4 == VectorType(TFloat, 4)

Float3 == VectorType(TFloat, 3)

Float2 == VectorType(TFloat, 2)

UInt3 == VectorType(TUInt, 3)

\* PositionInfo that selects by the stage alone: SystemValueBinding tells
\* the two apart.
PositionInfoByStage(kind, stage) ==
    IF stage = "Fragment" THEN Info("gl_FragCoord", "", Float4)
    ELSE IF stage = "Geometry" THEN Info("gl_Position", "gl_in", Float4)
    ELSE Info("gl_Position", "", Float4)

\* sv_position: the stage and direction select the built-in.
PositionInfo(kind, stage) ==
    IF stage = "Fragment" /\ kind = "VaryingInput"
    THEN Info("gl_FragCoord", "", Float4)
    ELSE IF stage = "Geometry" /\ kind = "VaryingInput"
    THEN Info("gl_Position", "gl_in", Float4)
    ELSE Info("gl_Position", "", Float4)

\* RenderTargetArrayIndexRequire with the stage cases falling through to
\* the default: ExtensionRequirements tells the two apart.
RenderTargetArrayIndexRequireAll(w) ==
    requireGLSLExtension(
        requireGLSLVersion(
            IF w.stage = "Geometry" THEN requireGLSLVersion(w, "GLSL_150")
            ELSE IF w.stage = "Fragment" THEN requireGLSLVersion(w, "GLSL_430")
            ELSE w,
            "GLSL_450"),
        "GL_ARB_shader_viewport_layer_array")

\* sv_rendertargetarrayindex: requirements by the context's stage.
RenderTargetArrayIndexRequire(w) ==
    IF w.stage = "Geometry" THEN requireGLSLVersion(w, "GLSL_150")
    ELSE IF w.stage = "Fragment" THEN requireGLSLVersion(w, "GLSL_430")
    ELSE requireGLSLExtension(requireGLSLVersion(w, "GLSL_450"),
                              "GL_ARB_shader_viewport_layer_array")

MultiviewRequire(w) ==
    requireGLSLExtension(requireGLSLVersion(w, "GLSL_450"),
                         "GL_NVX_multiview_per_view_attributes")

\* The if/else-if chain on the lower-cased name: the world after the
\* requirements of the matching branch, and the (name, outer array,
\* required type) it sets; name "" when no branch matched.
SystemValueBranch(w, semanticName, kind, stage) ==
    IF semanticName = sv_position THEN [w |-> w, info |-> PositionInfo(kind, stage)]
    ELSE IF semanticName = sv_clipdistance THEN [w |-> w, info |-> Info("gl_ClipDistance", "", TFloat)]
    ELSE IF semanticName = sv_culldistance
    THEN [w |-> requireGLSLExtension(w, "ARB_cull_distance"),
          info |-> Info("gl_CullDistance", "", TFloat)]
    ELSE IF semanticName = sv_coverage THEN [w |-> w, info |-> Info("gl_SampleMask", "", TInt)]
    ELSE IF semanticName = sv_depth THEN [w |-> w, info |-> Info("gl_FragDepth", "", TFloat)]
    ELSE IF semanticName = sv_depthgreaterequal THEN [w |-> w, info |-> Info("gl_FragDepth", "", TFloat)]
    ELSE IF semanticName = sv_depthlessequal THEN [w |-> w, info |-> Info("gl_FragDepth", "", TFloat)]
    ELSE IF semanticName = sv_dispatchthreadid THEN [w |-> w, info |-> Info("gl_GlobalInvocationID", "", UInt3)]
    ELSE IF semanticName = sv_domainlocation THEN [w |-> w, info |-> Info("gl_TessCoord", "", Float3)]
    ELSE IF semanticName = sv_groupid THEN [w |-> w, info |-> Info("gl_WorkGroupID", "", UInt3)]
    ELSE IF semanticName = sv_groupindex THEN [w |-> w, info |-> Info("gl_LocalInvocationIndex", "", TUInt)]
    ELSE IF semanticName = sv_groupthreadid THEN [w |-> w, info |-> Info("gl_LocalInvocationID", "", UInt3)]
    ELSE IF semanticName = sv_gsinstanceid THEN [w |-> w, info |-> Info("gl_InvocationID", "", TInt)]
    ELSE IF semanticName = sv_instanceid THEN [w |-> w, info |-> Info("gl_InstanceIndex", "", TInt)]
    ELSE IF semanticName = sv_isfrontface THEN [w |-> w, info |-> Info("gl_FrontFacing", "", TBool)]
    ELSE IF semanticName = sv_outputcontrolpointid THEN [w |-> w, info |-> Info("gl_InvocationID", "", TInt)]
    ELSE IF semanticName = sv_pointsize THEN [w |-> w, info |-> Info("gl_PointSize", "", TFloat)]
    ELSE IF semanticName = sv_primitiveid THEN [w |-> w, info |-> Info("gl_PrimitiveID", "", TInt)]
    ELSE IF semanticName = sv_rendertargetarrayindex
    THEN [w |-> RenderTargetArrayIndexRequire(w), info |-> Info("gl_Layer", "", TInt)]
    ELSE IF semanticName = sv_sampleindex THEN [w |-> w, info |-> Info("gl_SampleID", "", TInt)]
    ELSE IF semanticName = sv_stencilref
    THEN [w |-> requireGLSLExtension(w, "ARB_shader_stencil_export"),
          info |-> Info("gl_FragStencilRef", "", TInt)]
    ELSE IF semanticName = sv_tessfactor
    THEN [w |-> w, info |-> Info("gl_TessLevelOuter", "", ArrayType(TFloat, 4))]
    ELSE IF semanticName = sv_vertexid THEN [w |-> w, info |-> Info("gl_VertexIndex", "", TInt)]
    ELSE IF semanticName = sv_viewportarrayindex THEN [w |-> w, info |-> Info("gl_ViewportIndex", "", TInt)]
    ELSE IF semanticName = nv_x_right
    THEN [w |-> MultiviewRequire(w), info |-> Info("gl_PositionPerViewNV[1]", "", NullType)]
    ELSE IF semanticName = nv_viewport_mask
    THEN [w |-> MultiviewRequire(w), info |-> Info("gl_ViewportMaskPerViewNV", "", NullType)]
    ELSE [w |-> w, info |-> NoInfo]

\* ResolvedOrDiagnosed without the diagnostic: UnknownSemantic tells the
\* two apart.
ResolvedOrSilent(r, varLayout) ==
    IF r.info.found THEN r ELSE [w |-> r.w, info |-> NoInfo]

\* The end of getGLSLSystemValueInfo: the filled storage when a branch set
\* the name, else the diagnostic and nullptr.
ResolvedOrDiagnosed(r, varLayout) ==
    IF r.info.found THEN r
    ELSE [w |-> diagnose(r.w, varLayout.varDecl, "unknownSystemValueSemantic",
                         varLayout.systemValueSemantic),
          info |-> NoInfo]

\* ResolveLowered without the sv_target case: OrdinaryVarying tells the two
\* apart.
ResolveLoweredWithoutTarget(w, varLayout, semanticName, kind, stage) ==
    ResolvedOrDiagnosed(SystemValueBranch(w, semanticName, kind, stage), varLayout)

\* getGLSLSystemValueInfo after the empty check, on the lower-cased name.
ResolveLowered(w, varLayout, semanticName, kind, stage) ==
    IF semanticName = sv_target THEN [w |-> w, info |-> NoInfo]
    ELSE ResolvedOrDiagnosed(SystemValueBranch(w, semanticName, kind, stage), varLayout)

\* getGLSLSystemValueInfo: [w, info]; info.found = FALSE is the nullptr result.
getGLSLSystemValueInfo(w, varLayout, kind, stage) ==
    IF Len(varLayout.systemValueSemantic) = 0 THEN [w |-> w, info |-> NoInfo]
    ELSE ResolveLowered(w, varLayout, toLower(varLayout.systemValueSemantic), kind, stage)

(***************************************************************************)
(* IR instructions and the builder.  An instruction is [id, op, args, key, *)
(* idx]: args are the ids of its operand instructions, key the struct key  *)
(* of a field access, idx the literal index of an element access.  Its     *)
(* data type is w.ty[id].  A block is a sequence of instructions (the      *)
(* parameters of the entry block are kept apart, in the function record).  *)
(***************************************************************************)
NoIdx == -1

Inst(id, op, args, key, idx) == [id |-> id, op |-> op, args |-> args, key |-> key, idx |-> idx]

Fail(w, msg) == [w EXCEPT !.err = IF @ = "" THEN msg ELSE @]

NextId(w) == Len(w.ty) + 1

getDataType(w, id) == IF id \in 1..Len(w.ty) THEN w.ty[id] ELSE NullType

Pointee(t) == IF t.k = "ptr" THEN t.value ELSE NullType

\* Insertion points of a builder.
InsertIntoFunc == [mode |-> "func", blk |-> 0, inst |-> 0]

InsertIntoBlock(b) == [mode |-> "end", blk |-> b, inst |-> 0]

InsertBefore(b, id) == [mode |-> "before", blk |-> b, inst |-> id]

IndexOfInst(block, id) ==
    IF \E i \in 1..Len(block) : block[i].id = id
    THEN CHOOSE i \in 1..Len(block) : block[i].id = id
    ELSE 0

InsertAt(block, pos, inst) ==
    SubSeq(block, 1, pos - 1) \o <<inst>> \o SubSeq(block, pos, Len(block))

\* The block of instruction id (0 when it is in no block).
BlockOfInst(blocks, id) ==
    IF \E b \in 1..Len(blocks) : IndexOfInst(blocks[b], id) # 0
    THEN CHOOSE b \in 1..Len(blocks) : IndexOfInst(blocks[b], id) # 0
    ELSE 0

\* IRBuilder::addInst: place a new instruction at the insertion point.
EmitInst(w, op, type, args, key, idx) ==
    LET id == NextId(w)
        inst == Inst(id, op, args, key, idx)
        b == w.ip.blk
        blk == w.blocks[b]
        pos == IF w.ip.mode = "end" THEN Len(blk) + 1 ELSE IndexOfInst(blk, w.ip.inst)
    IN  IF w.err # "" THEN [w |-> w, v |-> 0]
        ELSE IF w.ip.mode = "func" \/ b \notin 1..Len(w.blocks) \/ pos = 0
        THEN [w |-> Fail(w, "no insertion point"), v |-> 0]
        ELSE [w |-> [w EXCEPT !.ty = Append(@, type),
                              !.blocks[b] = InsertAt(blk, pos, inst)],
              v |-> id]

emitFieldExtract(w, type, base, key) == EmitInst(w, "fieldExtract", type, <<base>>, key, NoIdx)

emitFieldAddress(w, ptrType, base, key) == EmitInst(w, "fieldAddress", ptrType, <<base>>, key, NoIdx)

\* emitElementExtract that always extracts element 0: TupleOfArray tells the
\* two apart.
emitElementExtractFirst(w, type, base, index) == EmitInst(w, "elementExtract", type, <<base>>, "", 0)

emitElementExtract(w, type, base, index) == EmitInst(w, "elementExtract", type, <<base>>, "", index)

emitElementAddress(w, ptrType, base, index) == EmitInst(w, "elementAddress", ptrType, <<base>>, "", index)

emitLoad(w, ptr) == EmitInst(w, "load", Pointee(getDataType(w, ptr)), <<ptr>>, "", NoIdx)

emitStore(w, dst, src) == EmitInst(w, "store", VoidType, <<dst, src>>, "", NoIdx)

emitVar(w, type) == EmitInst(w, "var", PtrType("Ptr", type), <<>>, "", NoIdx)

emitConstructorInst(w, type, args) == EmitInst(w, "construct", type, args, "", NoIdx)

emitMakeArray(w, type, args) == EmitInst(w, "makeArray", type, args, "", NoIdx)

emitUndefined(w, type) == EmitInst(w, "undefined", type, <<>>, "", NoIdx)

emitReturn(w) == EmitInst(w, "returnVoid", VoidType, <<>>, "", NoIdx)

\* inst->replaceUsesWith(new): every operand of the body that is old.
ReplaceArgs(args, old, new) == [i \in 1..Len(args) |-> IF args[i] = old THEN new ELSE args[i]]

replaceUsesWith(w, old, new) ==
    [w EXCEPT !.blocks =
        [b \in 1..Len(w.blocks) |->
            [i \in 1..Len(w.blocks[b]) |->
                [w.blocks[b][i] EXCEPT !.args = ReplaceArgs(@, old, new)]]]]

\* inst->removeAndDeallocate() for an instruction of a block.
RemoveInst(w, b, id) ==
    [w EXCEPT !.blocks[b] = SelectSeq(@, LAMBDA x : x.id # id)]

\* addGlobalParam + moveValueBefore(globalParam, func): a new global shader
\* parameter of the module, without decorations yet.
addGlobalParam(w, valueType) ==
    LET id == NextId(w)
    IN  [w |-> [w EXCEPT !.ty = Append(@, valueType),
                         !.globals = Append(@, [id |-> id, type |-> valueType,
                                                 layout |-> <<>>, import |-> <<>>,
                                                 outerArray |-> <<>>])],
         v |-> id]

GlobalIndex(w, id) == CHOOSE i \in 1..Len(w.globals) : w.globals[i].id = id

addImportDecoration(w, id, name) ==
    [w EXCEPT !.globals[GlobalIndex(w, id)].import = Append(@, name)]

addGLSLOuterArrayDecoration(w, id, name) ==
    [w EXCEPT !.globals[GlobalIndex(w, id)].outerArray = Append(@, name)]

addLayoutDecoration(w, id, layout) ==
    [w EXCEPT !.globals[GlobalIndex(w, id)].layout = Append(@, layout)]

addDependsOnDecoration(w, id) == [w EXCEPT !.deps = Append(@, id)]


(***************************************************************************)
(* ScalarizedVal.  An operation on the world returns [w, v]: the world     *)
(* after it and its result.                                                *)
(***************************************************************************)
NoneVal == [flavor |-> "none"]

ValueVal(irValue) == [flavor |-> "value", irValue |-> irValue]

AddressVal(irValue) == [flavor |-> "address", irValue |-> irValue]

TupleVal(type, elements) == [flavor |-> "tuple", type |-> type, elements |-> elements]

TypeAdapterVal(val, actualType, pretendType) ==
    [flavor |-> "typeAdapter", val |-> val, actualType |-> actualType,
     pretendType |-> pretendType]

Element(key, val) == [key |-> key, val |-> val]

Failed(w, msg) == [w |-> Fail(w, msg), v |-> NoneVal]

\* ScalarizedVal::value / ::address of the instruction an emit returned.
ValueResult(r) == [w |-> r.w, v |-> ValueVal(r.v)]

AddressResult(r) == [w |-> r.w, v |-> AddressVal(r.v)]

HasField(baseType, fieldKey) ==
    /\ baseType.k = "struct"
    /\ \E i \in 1..Len(baseType.fields) : baseType.fields[i].key = fieldKey

\* getFieldType, where HasField holds (else the caller fails "no such field").
getFieldType(baseType, fieldKey) ==
    baseType.fields[CHOOSE i \in 1..Len(baseType.fields) :
                        /\ baseType.fields[i].key = fieldKey
                        /\ \A j \in 1..(i-1) : baseType.fields[j].key # fieldKey].type

\* extractField, Flavor::value, t the data type of the value.
extractFieldOfValue(w, val, t, fieldKey) ==
    IF ~HasField(t, fieldKey) THEN Failed(w, "no such field")
    ELSE ValueResult(emitFieldExtract(w, getFieldType(t, fieldKey), val.irValue, fieldKey))

\* extractField, Flavor::address, ptrType the data type of the address.
extractFieldOfAddress(w, val, ptrType, fieldKey) ==
    IF ptrType.k # "ptr" THEN Failed(w, "null pointer type")
    ELSE IF ~HasField(ptrType.value, fieldKey) THEN Failed(w, "no such field")
    ELSE AddressResult(emitFieldAddress(
            w, PtrType(ptrType.op, getFieldType(ptrType.value, fieldKey)),
            val.irValue, fieldKey))

\* extractField; fieldIndex counts from 0 as in the source.
extractField(w, val, fieldIndex, fieldKey) ==
    IF w.err # "" THEN [w |-> w, v |-> NoneVal]
    ELSE IF val.flavor = "value"
    THEN extractFieldOfValue(w, val, getDataType(w, val.irValue), fieldKey)
    ELSE IF val.flavor = "address"
    THEN extractFieldOfAddress(w, val, getDataType(w, val.irValue), fieldKey)
    ELSE IF val.flavor = "tuple"
    THEN IF fieldIndex + 1 \in 1..Len(val.elements)
         THEN [w |-> w, v |-> val.elements[fieldIndex + 1].val]
         ELSE Failed(w, "tuple index out of range")
    ELSE Failed(w, "unimplemented")

\* adaptTypeInst with the two types exchanged: TypeAdaptation tells the two
\* apart.
adaptTypeInstSwapped(w, val, toType, fromType) ==
    ValueResult(emitConstructorInst(w, fromType, <<val>>))

\* adaptType on an instruction: one single-argument constructor of toType.
adaptTypeInst(w, val, toType, fromType) ==
    ValueResult(emitConstructorInst(w, toType, <<val>>))

\* adaptType on a ScalarizedVal; an address is loaded first (loaded is the
\* result of that emitLoad).
adaptLoaded(loaded, toType, fromType) ==
    adaptTypeInst(loaded.w, loaded.v, toType, fromType)

adaptType(w, val, toType, fromType) ==
    IF w.err # "" THEN [w |-> w, v |-> NoneVal]
    ELSE IF val.flavor = "value" THEN adaptTypeInst(w, val.irValue, toType, fromType)
    ELSE IF val.flavor = "address"
    THEN adaptLoaded(emitLoad(w, val.irValue), toType, fromType)
    ELSE Failed(w, "unimplemented")

RECURSIVE assign(_, _, _)
RECURSIVE assignFromTuple(_, _, _, _)
RECURSIVE assignToTuple(_, _, _, _)
RECURSIVE assignInto(_, _)
RECURSIVE assignFrom(_, _)
RECURSIVE assignAdapted(_, _)

\* assign(builder, l.v, right), l the result of the extractField on the left.
assignInto(l, right) == assign(l.w, l.v, right)

\* assign(builder, left, r.v), r the result of the extractField on the right.
assignFrom(r, left) == assign(r.w, left, r.v)

\* assign(builder, typeAdapter->val, adaptedRight)
assignAdapted(adaptedRight, left) == assign(adaptedRight.w, left.val, adaptedRight.v)

\* Address <- Address: the store of the loaded value.
storeLoaded(val, left) == emitStore(val.w, left.irValue, val.v).w

\* Address <- Tuple, elements ee.. (ee counts from 0).
assignFromTuple(w, left, right, ee) ==
    IF w.err # "" \/ ee >= Len(right.elements) THEN w
    ELSE assignFromTuple(
            assignInto(extractField(w, left, ee, right.elements[ee + 1].key),
                       right.elements[ee + 1].val),
            left, right, ee + 1)

\* Tuple <- anything, elements ee..
assignToTuple(w, left, right, ee) ==
    IF w.err # "" \/ ee >= Len(left.elements) THEN w
    ELSE assignToTuple(
            assignFrom(extractField(w, right, ee, left.elements[ee + 1].key),
                       left.elements[ee + 1].val),
            left, right, ee + 1)

\* assign that does nothing where the code has no case: AssignUnimplemented
\* tells the two apart.
assignLenient(w, left, right) ==
    IF w.err # "" THEN w
    ELSE IF left.flavor = "address"
    THEN IF right.flavor = "value" THEN emitStore(w, left.irValue, right.irValue).w
         ELSE IF right.flavor = "address" THEN storeLoaded(emitLoad(w, right.irValue), left)
         ELSE IF right.flavor = "tuple" THEN assignFromTuple(w, left, right, 0)
         ELSE w
    ELSE IF left.flavor = "tuple" THEN assignToTuple(w, left, right, 0)
    ELSE IF left.flavor = "typeAdapter"
    THEN assignAdapted(adaptType(w, right, left.actualType, left.pretendType), left)
    ELSE w

assign(w, left, right) ==
    IF w.err # "" THEN w
    ELSE IF left.flavor = "address"
    THEN IF right.flavor = "value" THEN emitStore(w, left.irValue, right.irValue).w
         ELSE IF right.flavor = "address" THEN storeLoaded(emitLoad(w, right.irValue), left)
         ELSE IF right.flavor = "tuple" THEN assignFromTuple(w, left, right, 0)
         ELSE Fail(w, "unimplemented")
    ELSE IF left.flavor = "tuple" THEN assignToTuple(w, left, right, 0)
    ELSE IF left.flavor = "typeAdapter"
    THEN assignAdapted(adaptType(w, right, left.actualType, left.pretendType), left)
    ELSE Fail(w, "unimplemented")

RECURSIVE getSubscriptVal(_, _, _, _)
RECURSIVE getSubscriptFields(_, _, _, _, _, _)
RECURSIVE getSubscriptNext(_, _, _, _, _, _)

\* The end of one iteration of the field loop: r is the subscripted element.
getSubscriptNext(r, structType, inputTuple, indexVal, elementCounter, acc) ==
    getSubscriptFields(r.w, structType, inputTuple, indexVal, elementCounter + 1,
                       Append(acc, Element(inputTuple.elements[elementCounter + 1].key, r.v)))

\* The loop of getSubscriptVal over the fields of the struct element type,
\* from field elementCounter (counting from 0); acc are the result elements.
getSubscriptFields(w, structType, inputTuple, indexVal, elementCounter, acc) ==
    IF w.err # "" THEN [w |-> w, v |-> NoneVal]
    ELSE IF elementCounter >= Len(structType.fields)
    THEN IF elementCounter = Len(inputTuple.elements)
         THEN [w |-> w, v |-> TupleVal(structType, acc)]
         ELSE Failed(w, "assert: elementCounter == elementCount")
    ELSE IF ~(elementCounter < Len(inputTuple.elements))
    THEN Failed(w, "assert: elementIndex < elementCount")
    ELSE getSubscriptNext(
            getSubscriptVal(w, structType.fields[elementCounter + 1].type,
                            inputTuple.elements[elementCounter + 1].val, indexVal),
            structType, inputTuple, indexVal, elementCounter, acc)

getSubscriptVal(w, elementType, val, indexVal) ==
    IF w.err # "" THEN [w |-> w, v |-> NoneVal]
    ELSE IF val.flavor = "value"
    THEN ValueResult(emitElementExtract(w, elementType, val.irValue, indexVal))
    ELSE IF val.flavor = "address"
    THEN AddressResult(emitElementAddress(w, PtrType("Ptr", elementType), val.irValue, indexVal))
    ELSE IF val.flavor = "tuple"
    THEN IF elementType.k # "struct" THEN Failed(w, "null struct type")
         ELSE getSubscriptFields(w, elementType, val, indexVal, 0, <<>>)
    ELSE Failed(w, "unimplemented")

RECURSIVE materializeValue(_, _)
RECURSIVE materializeTupleValue(_, _)
RECURSIVE materializeArrayElements(_, _, _, _, _)
RECURSIVE materializeElements(_, _, _, _)
RECURSIVE materializeResult(_)
RECURSIVE materializeArrayNext(_, _, _, _, _)
RECURSIVE materializeNext(_, _, _, _)

\* materializeValue(builder, r.v), r the result of the step before.
materializeResult(r) == materializeValue(r.w, r.v)

materializeArrayNext(arrayElementVal, arrayType, val, ii, acc) ==
    materializeArrayElements(arrayElementVal.w, arrayType, val, ii + 1,
                             Append(acc, arrayElementVal.v))

\* The array loop of materializeTupleValue from index ii; acc are the values.
materializeArrayElements(w, arrayType, val, ii, acc) ==
    IF w.err # "" THEN [w |-> w, v |-> acc]
    ELSE IF ii >= arrayType.count THEN [w |-> w, v |-> acc]
    ELSE materializeArrayNext(
            materializeResult(getSubscriptVal(w, arrayType.elem, val, ii)),
            arrayType, val, ii, acc)

materializeNext(elementVal, val, ee, acc) ==
    materializeElements(elementVal.w, val, ee + 1, Append(acc, elementVal.v))

\* The aggregate loop of materializeTupleValue from element ee.
materializeElements(w, val, ee, acc) ==
    IF w.err # "" THEN [w |-> w, v |-> acc]
    ELSE IF ee >= Len(val.elements) THEN [w |-> w, v |-> acc]
    ELSE materializeNext(materializeValue(w, val.elements[ee + 1].val), val, ee, acc)

\* emitMakeArray / emitConstructorInst over the materialized values r.v.
makeArrayOf(r, type) == emitMakeArray(r.w, type, r.v)

constructOf(r, type) == emitConstructorInst(r.w, type, r.v)

materializeTupleValue(w, val) ==
    IF w.err # "" THEN [w |-> w, v |-> 0]
    ELSE IF val.type.k = "array"
    THEN makeArrayOf(materializeArrayElements(w, val.type, val, 0, <<>>), val.type)
    ELSE constructOf(materializeElements(w, val, 0, <<>>), val.type)

materializeValue(w, val) ==
    IF w.err # "" THEN [w |-> w, v |-> 0]
    ELSE IF val.flavor = "value" THEN [w |-> w, v |-> val.irValue]
    ELSE IF val.flavor = "address" THEN emitLoad(w, val.irValue)
    ELSE IF val.flavor = "tuple" THEN materializeTupleValue(w, val)
    ELSE IF val.flavor = "typeAdapter"
    THEN materializeResult(adaptType(w, val.val, val.pretendType, val.actualType))
    ELSE [w |-> Fail(w, "unimplemented"), v |-> 0]

(***************************************************************************)
(* Varying materializer.  A GlobalVaryingDeclarator chain is the sequence  *)
(* of its element counts, head first (the head is the innermost array).    *)
(***************************************************************************)
\* The resource usage of one array wrapper: the leaf's count for the kind
\* times this wrapper's element count.
ArrayResourceUsage(inTypeLayout, kind, elementCount) ==
    IF HasResourceInfo(inTypeLayout.res, kind)
    THEN <<[kind |-> kind,
            count |-> FindResourceInfo(inTypeLayout.res, kind).count * elementCount]>>
    ELSE <<>>

RECURSIVE WrapDeclarators(_, _, _, _, _)

\* WrapDeclarators that drops the declarators: SOAArrayDistribution tells
\* the two apart.
WithoutDeclarators(type, typeLayout, inTypeLayout, kind, declarator) ==
    [type |-> type, typeLayout |-> typeLayout]

\* The declarator loop of createSimpleGLSLGlobalVarying: the type and the
\* type layout of the global after wrapping in every declarator.
WrapDeclarators(type, typeLayout, inTypeLayout, kind, declarator) ==
    IF declarator = <<>> THEN [type |-> type, typeLayout |-> typeLayout]
    ELSE WrapDeclarators(
            ArrayType(type, Head(declarator)),
            ArrayTypeLayout(typeLayout,
                            ArrayResourceUsage(inTypeLayout, kind, Head(declarator))),
            inTypeLayout, kind, Tail(declarator))

\* The type of the global before wrapping: the built-in's required type
\* overrides the declared one.
LeafType(systemValueInfo, inType) ==
    IF systemValueInfo.found /\ systemValueInfo.requiredType # NullType
    THEN systemValueInfo.requiredType
    ELSE inType

\* LeafVarLayout that keeps the resource entries of the input's layout
\* instead of the single fresh one: GlobalParameterCreation tells the two
\* apart.
LeafVarLayoutOfInput(inVarLayout, typeLayout, kind, bindingIndex) ==
    [inVarLayout EXCEPT !.typeLayout = typeLayout]

\* The fresh VarLayout of a leaf global: the input's metadata and one
\* resource-info entry, kind -> bindingIndex.
LeafVarLayout(inVarLayout, typeLayout, kind, bindingIndex) ==
    [inVarLayout EXCEPT !.typeLayout = typeLayout,
                        !.res = <<[kind |-> kind, index |-> bindingIndex]>>]

\* Outputs are wrapped in Out<...>.
LeafParamType(type, kind) ==
    IF kind = "VaryingOutput" THEN PtrType("Out", type) ELSE type

\* The ScalarizedVal of a leaf global: an address for an output, a value
\* for an input, in an adapter when the built-in's type differs from the
\* declared one.
LeafVal(globalParam, kind, systemValueInfo, inType) ==
    IF /\ systemValueInfo.found
       /\ systemValueInfo.requiredType # NullType
       /\ ~isTypeEqual(systemValueInfo.requiredType, inType)
    THEN TypeAdapterVal(IF kind = "VaryingOutput" THEN AddressVal(globalParam)
                                                   ELSE ValueVal(globalParam),
                        systemValueInfo.requiredType, inType)
    ELSE IF kind = "VaryingOutput" THEN AddressVal(globalParam)
    ELSE ValueVal(globalParam)

\* The import decoration of a leaf global.
ImportDecorated(w, globalParam, systemValueInfo) ==
    IF systemValueInfo.found
    THEN addImportDecoration(w, globalParam, systemValueInfo.name)
    ELSE w

\* The outer-array decoration of a leaf global.
OuterArrayDecorated(w, globalParam, systemValueInfo) ==
    IF systemValueInfo.found /\ systemValueInfo.outerArrayName # ""
    THEN addGLSLOuterArrayDecoration(w, globalParam, systemValueInfo.outerArrayName)
    ELSE w

\* createSimpleGLSLGlobalVarying once the global g exists: its decorations
\* and the value returned.
DecorateLeaf(g, systemValueInfo, varLayout, inType, kind) ==
    [w |-> addLayoutDecoration(
              OuterArrayDecorated(ImportDecorated(g.w, g.v, systemValueInfo),
                                  g.v, systemValueInfo),
              g.v, varLayout),
     v |-> LeafVal(g.v, kind, systemValueInfo, inType)]

\* createSimpleGLSLGlobalVarying once the type and layout are wrapped.
CreateLeaf(sv, wrapped, inType, inVarLayout, kind, bindingIndex) ==
    DecorateLeaf(addGlobalParam(sv.w, LeafParamType(wrapped.type, kind)),
                 sv.info,
                 LeafVarLayout(inVarLayout, wrapped.typeLayout, kind, bindingIndex),
                 inType, kind)

\* createSimpleGLSLGlobalVarying after the resolver's answer sv.
CreateResolved(sv, inType, inVarLayout, inTypeLayout, kind, bindingIndex, declarator) ==
    IF declarator # <<>> /\ inTypeLayout.k = "null" THEN Failed(sv.w, "null type layout")
    ELSE CreateLeaf(sv,
                    WrapDeclarators(LeafType(sv.info, inType), inTypeLayout, inTypeLayout,
                                    kind, declarator),
                    inType, inVarLayout, kind, bindingIndex)

createSimpleGLSLGlobalVarying(w, inType, inVarLayout, inTypeLayout, kind, stage, bindingIndex, declarator) ==
    IF w.err # "" THEN [w |-> w, v |-> NoneVal]
    ELSE CreateResolved(getGLSLSystemValueInfo(w, inVarLayout, kind, stage),
                        inType, inVarLayout, inTypeLayout, kind, bindingIndex, declarator)

RECURSIVE WrapType(_, _)

RECURSIVE WrapTypeOutermostFirst(_, _)

\* WrapType that applies the chain from its far end: ArrayNestOrder tells
\* the two apart.
WrapTypeOutermostFirst(type, declarator) ==
    IF declarator = <<>> THEN type
    ELSE ArrayType(WrapTypeOutermostFirst(type, Tail(declarator)), Head(declarator))

\* The full type of a tuple: the struct wrapped in every outer array.
WrapType(type, declarator) ==
    IF declarator = <<>> THEN type
    ELSE WrapType(ArrayType(type, Head(declarator)), Tail(declarator))

\* FieldBindingIndex that does not advance by the field's own index:
\* BindingIndexOfLeaf tells the two apart.
FieldBindingIndexOfStruct(bindingIndex, fieldLayout, kind) == bindingIndex

\* The binding index of a struct field: the struct's plus the field's own.
FieldBindingIndex(bindingIndex, fieldLayout, kind) ==
    IF HasResourceInfo(fieldLayout.res, kind)
    THEN bindingIndex + FindResourceInfo(fieldLayout.res, kind).index
    ELSE bindingIndex

\* The elements of the tuple after a field: a field without value is left out.
WithElement(elements, key, fieldVal) ==
    IF fieldVal.flavor # "none" THEN Append(elements, Element(key, fieldVal)) ELSE elements

\* The tuple of a struct, r.v being the elements of its fields.
TupleResult(r, type, declarator) == [w |-> r.w, v |-> TupleVal(WrapType(type, declarator), r.v)]

RECURSIVE createGLSLGlobalVaryingsImpl(_, _, _, _, _, _, _, _)
RECURSIVE createFieldVaryings(_, _, _, _, _, _, _, _, _)
RECURSIVE createFieldNext(_, _, _, _, _, _, _, _, _)

\* The end of one iteration of the field loop: fieldVal is the field's value.
createFieldNext(fieldVal, structType, structTypeLayout, kind, stage, bindingIndex, declarator, fieldCounter, elements) ==
    createFieldVaryings(fieldVal.w, structType, structTypeLayout, kind, stage, bindingIndex,
                        declarator, fieldCounter + 1,
                        WithElement(elements, structType.fields[fieldCounter + 1].key,
                                    fieldVal.v))

\* The field loop of the struct case, from field fieldCounter (from 0).
createFieldVaryings(w, structType, structTypeLayout, kind, stage, bindingIndex, declarator, fieldCounter, elements) ==
    IF w.err # "" THEN [w |-> w, v |-> elements]
    ELSE IF fieldCounter >= Len(structType.fields) THEN [w |-> w, v |-> elements]
    ELSE IF fieldCounter >= Len(structTypeLayout.fields)
    THEN [w |-> Fail(w, "field layout index out of range"), v |-> elements]
    ELSE createFieldNext(
            createGLSLGlobalVaryingsImpl(
                w, structType.fields[fieldCounter + 1].type,
                structTypeLayout.fields[fieldCounter + 1],
                structTypeLayout.fields[fieldCounter + 1].typeLayout, kind, stage,
                FieldBindingIndex(bindingIndex, structTypeLayout.fields[fieldCounter + 1], kind),
                declarator),
            structType, structTypeLayout, kind, stage, bindingIndex, declarator,
            fieldCounter, elements)

\* Basic, vector and matrix types, and every type that is none of void,
\* array, stream output and struct, take the simple case.
createGLSLGlobalVaryingsImpl(w, type, varLayout, typeLayout, kind, stage, bindingIndex, declarator) ==
    IF w.err # "" THEN [w |-> w, v |-> NoneVal]
    ELSE IF type.k = "void" THEN [w |-> w, v |-> NoneVal]
    ELSE IF type.k = "array"
    THEN IF typeLayout.k # "array" THEN Failed(w, "assert: arrayLayout")
         ELSE createGLSLGlobalVaryingsImpl(w, type.elem, varLayout,
                                           typeLayout.elementTypeLayout, kind, stage,
                                           bindingIndex, <<type.count>> \o declarator)
    ELSE IF type.k = "stream"
    THEN IF typeLayout.k # "stream" THEN Failed(w, "assert: streamLayout")
         ELSE createGLSLGlobalVaryingsImpl(w, type.elem, varLayout,
                                           typeLayout.elementTypeLayout, kind, stage,
                                           bindingIndex, declarator)
    ELSE IF type.k = "struct"
    THEN IF typeLayout.k # "struct" THEN Failed(w, "assert: structTypeLayout")
         ELSE TupleResult(createFieldVaryings(w, type, typeLayout, kind, stage, bindingIndex,
                                              declarator, 0, <<>>),
                          type, declarator)
    ELSE createSimpleGLSLGlobalVarying(w, type, varLayout, typeLayout, kind, stage,
                                       bindingIndex, declarator)

\* The binding index createGLSLGlobalVaryings starts from.
BaseBindingIndex(layout, kind) ==
    IF HasResourceInfo(layout.res, kind) THEN FindResourceInfo(layout.res, kind).index ELSE 0

\* w.log keeps, for the properties, the history of the calls of
\* createGLSLGlobalVaryings: the request, the range of the globals the call
\* created (first is the number of globals before it, plus 1) and its result.
Logged(r, type, layout, kind, stage, first) ==
    [w |-> [r.w EXCEPT !.log = Append(@,
                [func |-> r.w.func, type |-> type, layout |-> layout, kind |-> kind,
                 stage |-> stage, first |-> first, last |-> Len(r.w.globals), val |-> r.v,
                 err |-> r.w.err])],
     v |-> r.v]

\* createGLSLGlobalVaryings with a cache of the requests served so far, kept
\* across entry points: NoCrossEntryPointState tells the two apart.
createGLSLGlobalVaryingsCached(w, type, layout, kind, stage) ==
    IF w.err # "" THEN [w |-> w, v |-> NoneVal]
    ELSE IF layout.k # "var" THEN Failed(w, "null layout")
    ELSE IF \E i \in 1..Len(w.log) :
               /\ w.log[i].type = type /\ w.log[i].layout = layout
               /\ w.log[i].kind = kind /\ w.log[i].stage = stage
    THEN [w |-> w,
          v |-> w.log[CHOOSE i \in 1..Len(w.log) :
                         /\ w.log[i].type = type /\ w.log[i].layout = layout
                         /\ w.log[i].kind = kind /\ w.log[i].stage = stage].val]
    ELSE Logged(createGLSLGlobalVaryingsImpl(w, type, layout, layout.typeLayout, kind, stage,
                                             BaseBindingIndex(layout, kind), <<>>),
                type, layout, kind, stage, Len(w.globals) + 1)

createGLSLGlobalVaryings(w, type, layout, kind, stage) ==
    IF w.err # "" THEN [w |-> w, v |-> NoneVal]
    ELSE IF layout.k # "var" THEN Failed(w, "null layout")
    ELSE Logged(createGLSLGlobalVaryingsImpl(w, type, layout, layout.typeLayout, kind, stage,
                                             BaseBindingIndex(layout, kind), <<>>),
                type, layout, kind, stage, Len(w.globals) + 1)

(***************************************************************************)
(* Module-level values a call of the body can name as its callee.  They    *)
(* have the first ids of the module and the pass never changes them.       *)
(***************************************************************************)
NoDecoration == <<>>

TargetIntrinsic(target, definition) == <<[target |-> target, definition |-> definition]>>

ModuleInsts ==
    << [op |-> "func", operand |-> 0, returnVal |-> 0,
        decorations |-> TargetIntrinsic("glsl", "EmitVertex()")],
       [op |-> "generic", operand |-> 0, returnVal |-> 1, decorations |-> NoDecoration],
       [op |-> "specialize", operand |-> 2, returnVal |-> 0, decorations |-> NoDecoration],
       [op |-> "func", operand |-> 0, returnVal |-> 0,
        decorations |-> TargetIntrinsic("glsl", "EndPrimitive()")],
       [op |-> "func", operand |-> 0, returnVal |-> 0, decorations |-> NoDecoration],
       [op |-> "func", operand |-> 0, returnVal |-> 0,
        decorations |-> TargetIntrinsic("hlsl", "EmitVertex()")] >>

EmitVertexFunc == 1

EmitVertexGeneric == 2

EmitVertexSpecialized == 3

EndPrimitiveFunc == 4

PlainFunc == 5

HlslEmitVertexFunc == 6

RECURSIVE UltimateCallee(_)

\* UltimateCallee without the unwrapping of specialize and generic:
\* StreamAppend tells the two apart.
CalleeAsWritten(callee) == callee

\* The unwrapping loop: specialize(X, ...) -> X, generic { return R } -> R.
UltimateCallee(callee) ==
    IF callee \notin 1..Len(ModuleInsts) THEN callee
    ELSE IF ModuleInsts[callee].op = "specialize"
    THEN UltimateCallee(ModuleInsts[callee].operand)
    ELSE IF ModuleInsts[callee].op = "generic" /\ ModuleInsts[callee].returnVal # 0
    THEN UltimateCallee(ModuleInsts[callee].returnVal)
    ELSE callee

findTargetIntrinsicDecoration(callee, target) ==
    SelectSeq(ModuleInsts[callee].decorations, LAMBDA d : d.target = target)

\* Is callee a function with the glsl target intrinsic EmitVertex()?
IsEmitVertexFunc(callee) ==
    /\ callee \in 1..Len(ModuleInsts)
    /\ ModuleInsts[callee].op = "func"
    /\ findTargetIntrinsicDecoration(callee, "glsl") # <<>>
    /\ findTargetIntrinsicDecoration(callee, "glsl")[1].definition = "EmitVertex()"

\* Is the instruction a call whose ultimate callee is the glsl EmitVertex()?
IsEmitVertexCall(inst) ==
    /\ inst.op = "call"
    /\ IsEmitVertexFunc(UltimateCallee(inst.args[1]))

(***************************************************************************)
(* Entry-point rewriter                                                    *)
(***************************************************************************)
RayTracingStages == {"AnyHit", "Callable", "ClosestHit", "Intersection", "Miss", "RayGeneration"}

\* LiftToGlobal without the decoration of the entry point: RayTracingLift
\* tells the two apart.
LiftWithoutDependency(g, pp, paramLayout) ==
    replaceUsesWith(addLayoutDecoration(g.w, g.v, paramLayout), pp.id, g.v)

\* legalizeRayTracingEntryPointParameterForGLSL once the global g exists.
LiftToGlobal(g, pp, paramLayout) ==
    addDependsOnDecoration(
        replaceUsesWith(addLayoutDecoration(g.w, g.v, paramLayout), pp.id, g.v),
        g.v)

legalizeRayTracingEntryPointParameterForGLSL(w, pp, paramLayout) ==
    LiftToGlobal(addGlobalParam(w, pp.type), pp, paramLayout)

\* builder->setInsertBefore(inst), inst in block b.
setInsertBefore(w, b, id) == [w EXCEPT !.ip = InsertBefore(b, id)]

RECURSIVE AssignBeforeEmitVertex(_, _, _, _)
RECURSIVE ResumeAfterCall(_, _, _, _)

\* The scan goes on after the call ii of block b.
ResumeAfterCall(w, globalOutputVal, b, ii) ==
    IF w.err # "" THEN w
    ELSE AssignBeforeEmitVertex(w, globalOutputVal, b, IndexOfInst(w.blocks[b], ii) + 1)

\* The scan of the stream case over block b from position i: before every
\* EmitVertex() call, assign its operand 2 to the output globals.  The main
\* builder is used, so its insertion point moves.
AssignBeforeEmitVertex(w, globalOutputVal, b, i) ==
    IF w.err # "" THEN w
    ELSE IF b > Len(w.blocks) THEN w
    ELSE IF i > Len(w.blocks[b]) THEN AssignBeforeEmitVertex(w, globalOutputVal, b + 1, 1)
    ELSE IF ~IsEmitVertexCall(w.blocks[b][i])
    THEN AssignBeforeEmitVertex(w, globalOutputVal, b, i + 1)
    ELSE ResumeAfterCall(
            assign(setInsertBefore(w, b, w.blocks[b][i].id), globalOutputVal,
                   ValueVal(w.blocks[b][i].args[3])),
            globalOutputVal, b, w.blocks[b][i].id)

\* setInsertBefore(func->getFirstBlock()->getFirstOrdinaryInst())
InsertBeforeFirstOrdinaryInst(w) ==
    IF w.blocks # <<>> /\ w.blocks[1] # <<>>
    THEN [w EXCEPT !.ip = InsertBefore(1, w.blocks[1][1].id)]
    ELSE Fail(w, "no first ordinary instruction")

\* ReplaceUsesWithResult that leaves the uses of the parameter in place:
\* NoUseAtDeletion tells the two apart.
KeepUsesOfParam(r, pp) == r.w

\* pp->replaceUsesWith(r.v), r the result of the emit of the replacement.
ReplaceUsesWithResult(r, pp) == replaceUsesWith(r.w, pp.id, r.v)

\* The stream case once the output globals exist.
AppendToStream(globalOutputVal, pp) ==
    ReplaceUsesWithResult(
        emitUndefined(
            InsertBeforeFirstOrdinaryInst(
                AssignBeforeEmitVertex(globalOutputVal.w, globalOutputVal.v, 1, 1)),
            pp.type),
        pp)

legalizeStreamParameter(w, pp, paramLayout) ==
    AppendToStream(
        createGLSLGlobalVaryings(w, pp.type.value, paramLayout, "VaryingOutput", w.stage),
        pp)

IsReturn(inst) == inst.op \in {"returnVal", "returnVoid"}

\* A builder of its own with the shared state of w, inserting before the
\* terminator of block b.
TerminatorBuilder(w, b) == [w EXCEPT !.ip = InsertBefore(b, w.blocks[b][Len(w.blocks[b])].id)]

\* MainBuilder that goes on where the builder of the write-back stopped:
\* MainInsertionPointKept tells the two apart.
MainBuilderAtTerminator(w, mainIp) == w

\* Back to the main builder, whose insertion point is mainIp.
MainBuilder(w, mainIp) == [w EXCEPT !.ip = mainIp]

RECURSIVE WriteBackAtReturns(_, _, _, _)

\* WriteBackAtReturns that looks at the entry block only: WriteBackAtEveryReturn
\* tells the two apart.
WriteBackInEntryBlock(w, globalOutputVal, localVal, b) ==
    IF w.err # "" \/ b > 1 \/ w.blocks[1] = <<>> \/ ~IsReturn(w.blocks[1][Len(w.blocks[1])])
    THEN w
    ELSE MainBuilder(assign(TerminatorBuilder(w, 1), globalOutputVal, localVal), w.ip)

\* The loop over the blocks from b: before the terminator of every block
\* that ends in a return, assign the local to the output globals, with a
\* builder of its own (the main insertion point is kept).
WriteBackAtReturns(w, globalOutputVal, localVal, b) ==
    IF w.err # "" THEN w
    ELSE IF b > Len(w.blocks) THEN w
    ELSE IF w.blocks[b] = <<>> \/ ~IsReturn(w.blocks[b][Len(w.blocks[b])])
    THEN WriteBackAtReturns(w, globalOutputVal, localVal, b + 1)
    ELSE WriteBackAtReturns(
            MainBuilder(assign(TerminatorBuilder(w, b), globalOutputVal, localVal), w.ip),
            globalOutputVal, localVal, b + 1)

\* The out/inout case once the output globals exist.
WriteBack(globalOutputVal, localVal) ==
    WriteBackAtReturns(globalOutputVal.w, globalOutputVal.v, localVal, 1)

\* The out/inout case from the replacement of the parameter's uses on.
ReplaceAndWriteBack(w, pp, paramLayout, localVariable) ==
    WriteBack(
        createGLSLGlobalVaryings(replaceUsesWith(w, pp.id, localVariable),
                                 pp.type.value, paramLayout, "VaryingOutput", w.stage),
        AddressVal(localVariable))

\* InitLocal without the assignment: InOutInitialization tells the two
\* apart.
InitLocalOmitted(globalInputVal, localVariable) == globalInputVal.w

\* The inout case: the local is assigned from the input globals.
InitLocal(globalInputVal, localVariable) ==
    assign(globalInputVal.w, AddressVal(localVariable), globalInputVal.v)

\* WithLocal that takes every parameter for an inout parameter:
\* GlobalsPerDirection tells the two apart.
WithLocalAsInOut(localVariable, pp, paramLayout, stage) ==
    ReplaceAndWriteBack(
        InitLocal(createGLSLGlobalVaryings(localVariable.w, pp.type.value, paramLayout,
                                           "VaryingInput", stage),
                  localVariable.v),
        pp, paramLayout, localVariable.v)

\* The out/inout case once the local variable exists.
WithLocal(localVariable, pp, paramLayout, stage) ==
    ReplaceAndWriteBack(
        IF pp.type.op = "InOut"
        THEN InitLocal(createGLSLGlobalVaryings(localVariable.w, pp.type.value, paramLayout,
                                                "VaryingInput", stage),
                       localVariable.v)
        ELSE localVariable.w,
        pp, paramLayout, localVariable.v)

legalizeOutParameter(w, pp, paramLayout) ==
    WithLocal(emitVar(w, pp.type.value), pp, paramLayout, w.stage)

\* MaterializeParam that materializes the value a second time for the uses:
\* SingleMaterialization tells the two apart.
MaterializeParamAgain(globalValue, pp) ==
    ReplaceUsesWithResult(
        materializeValue(materializeValue(globalValue.w, globalValue.v).w, globalValue.v), pp)

\* The in case once the input globals exist.
MaterializeParam(globalValue, pp) ==
    ReplaceUsesWithResult(materializeValue(globalValue.w, globalValue.v), pp)

legalizeInParameter(w, pp, paramLayout) ==
    MaterializeParam(
        createGLSLGlobalVaryings(w, pp.type, paramLayout, "VaryingInput", w.stage), pp)

legalizeEntryPointParameterForGLSL(w, pp, paramLayout) ==
    IF IsOutTypeBase(pp.type) /\ pp.type.value.k = "stream"
    THEN legalizeStreamParameter(w, pp, paramLayout)
    ELSE IF w.stage \in RayTracingStages
    THEN legalizeRayTracingEntryPointParameterForGLSL(w, pp, paramLayout)
    ELSE IF IsOutTypeBase(pp.type) THEN legalizeOutParameter(w, pp, paramLayout)
    ELSE legalizeInParameter(w, pp, paramLayout)

RECURSIVE RewriteReturns(_, _, _, _)
RECURSIVE ResumeAtReturnVoid(_, _, _, _)

\* ResumeAtReturnVoid without the removal of the returnVal:
\* ReturnNormalization tells the two apart.
ResumeKeepsReturnVal(returnVoid, resultGlobal, b, returnInst) ==
    IF returnVoid.w.err # "" THEN returnVoid.w
    ELSE RewriteReturns(returnVoid.w, resultGlobal, b,
                        IndexOfInst(returnVoid.w.blocks[b], returnVoid.v))

\* After the returnVoid is emitted: remove the returnVal (id returnInst) and
\* resume the scan after the returnVoid.
ResumeAtReturnVoid(returnVoid, resultGlobal, b, returnInst) ==
    IF returnVoid.w.err # "" THEN returnVoid.w
    ELSE RewriteReturns(RemoveInst(returnVoid.w, b, returnInst), resultGlobal, b,
                        IndexOfInst(returnVoid.w.blocks[b], returnVoid.v))

\* The scan of the result case over block b from position i: a returnVal
\* becomes the assignment of its operand to the result globals and a
\* returnVoid, both emitted at the end of the block; the scan resumes at the
\* returnVoid, the last instruction of the block.
RewriteReturns(w, resultGlobal, b, i) ==
    IF w.err # "" THEN w
    ELSE IF b > Len(w.blocks) THEN w
    ELSE IF i > Len(w.blocks[b]) THEN RewriteReturns(w, resultGlobal, b + 1, 1)
    ELSE IF w.blocks[b][i].op # "returnVal" THEN RewriteReturns(w, resultGlobal, b, i + 1)
    ELSE ResumeAtReturnVoid(
            emitReturn(assign([w EXCEPT !.ip = InsertIntoBlock(b)], resultGlobal,
                              ValueVal(w.blocks[b][i].args[1]))),
            resultGlobal, b, w.blocks[b][i].id)

\* RewriteReturnsTo that starts the scan at the second block: ResultRewriting
\* tells the two apart.
RewriteReturnsAfterEntryBlock(resultGlobal) ==
    RewriteReturns(resultGlobal.w, resultGlobal.v, 2, 1)

\* The result part once the result globals exist.
RewriteReturnsTo(resultGlobal) == RewriteReturns(resultGlobal.w, resultGlobal.v, 1, 1)

\* The result part of legalizeEntryPointForGLSL, for a non-void result.
legalizeResult(w, resultType, resultLayout) ==
    RewriteReturnsTo(
        createGLSLGlobalVaryings(w, resultType, resultLayout, "VaryingOutput", w.stage))

(***************************************************************************)
(* State.                                                                  *)
(*   funcs    the entry-point functions of the module, each [name, stage,  *)
(*            hasLayout, resultLayout, type, params, blocks, uses, deps]   *)
(*   globals  the global shader parameters of the module, in order         *)
(*   ty       the data type of every instruction, by id                    *)
(*   exts, vers   the extension tracker; diags the diagnostic sink         *)
(*   pc, cur, pp  where legalizeEntryPointForGLSL stands: idle, or in the  *)
(*            parameter loop of function cur at parameter pp, or aborted   *)
(*   ip       the insertion point of the main builder                      *)
(*   err      the message of the abort, "" when none                       *)
(*   runs     how many times the pass was started                          *)
(*   log      history of the createGLSLGlobalVaryings calls                *)
(*   completed  history: the functions on which the pass has returned     *)
(*   target   history: the function the pass was last started on          *)
(*   orig     history: the functions as they were before any pass         *)
(***************************************************************************)
VARIABLES funcs, globals, ty, exts, vers, diags, pc, cur, pp, ip, err, runs, log,
          completed, target, orig

vars == <<funcs, globals, ty, exts, vers, diags, pc, cur, pp, ip, err, runs, log, completed,
          target, orig>>

\* Bounds of the model.
MaxParams == 2

MaxCount == 2

MaxRuns == 2

World(e) ==
    [func |-> e, stage |-> funcs[e].stage, globals |-> globals, blocks |-> funcs[e].blocks,
     ty |-> ty, ip |-> ip, exts |-> exts, vers |-> vers, diags |-> diags, err |-> "",
     deps |-> funcs[e].deps, log |-> log]

\* Write the world back: the body and decorations of function e and the
\* module, tracker and sink state.
Commit(w, e) ==
    /\ funcs' = [funcs EXCEPT ![e].blocks = w.blocks, ![e].deps = w.deps]
    /\ globals' = w.globals
    /\ ty' = w.ty
    /\ exts' = w.exts
    /\ vers' = w.vers
    /\ diags' = w.diags
    /\ ip' = w.ip
    /\ log' = w.log

\* An assertion failure or internal error ends the compilation.
Abort(msg) ==
    /\ pc' = "aborted"
    /\ err' = msg
    /\ UNCHANGED <<funcs, globals, ty, exts, vers, diags, cur, pp, ip, log, completed, orig>>

getParamCount(f) == Len(f.type.params)

\* The builder of legalizeEntryPointForGLSL, after setInsertInto(func).
BeginWorld(e) == [World(e) EXCEPT !.ip = InsertIntoFunc]

\* The world after the result part.
AfterResult(e) ==
    IF funcs[e].type.result.k = "void" THEN BeginWorld(e)
    ELSE legalizeResult(BeginWorld(e), funcs[e].type.result, funcs[e].resultLayout)

\* The insertion point for the parameters' initialization code.
AtParameters(w) == IF w.blocks # <<>> THEN InsertBeforeFirstOrdinaryInst(w) ELSE w

\* The pass enters the parameter loop of function e with world w.
EnterLoop(w, e) ==
    IF w.err # "" THEN Abort(w.err)
    ELSE /\ Commit(w, e)
         /\ pc' = "params"
         /\ cur' = e
         /\ pp' = 1
         /\ err' = ""
         /\ UNCHANGED <<completed, orig>>

\* LegalizeBegin without the early exit on a void result and no parameters:
\* Idempotence tells the two apart.
LegalizeBeginWithoutEarlyExit(e) ==
    /\ pc = "idle"
    /\ runs < MaxRuns
    /\ runs' = runs + 1
    /\ target' = e
    /\ IF ~funcs[e].hasLayout THEN Abort("assert: layoutDecoration")
       ELSE IF funcs[e].uses # 0 THEN Abort("assert: !func->firstUse")
       ELSE EnterLoop(AtParameters(AfterResult(e)), e)

\* LegalizeBegin without the assertions on the function: AssertionsOnDefects
\* tells the two apart.
LegalizeBeginUnchecked(e) ==
    /\ pc = "idle"
    /\ runs < MaxRuns
    /\ runs' = runs + 1
    /\ target' = e
    /\ IF funcs[e].type.result.k = "void" /\ getParamCount(funcs[e]) = 0
       THEN /\ completed' = completed \cup {e}
            /\ UNCHANGED <<funcs, globals, ty, exts, vers, diags, pc, cur, pp, ip, err, log,
                           orig>>
       ELSE EnterLoop(AtParameters(AfterResult(e)), e)

\* legalizeEntryPointForGLSL, up to the parameter loop: the assertions, the
\* early exit, the result, and the insertion point for the parameters.
LegalizeBegin(e) ==
    /\ pc = "idle"
    /\ runs < MaxRuns
    /\ runs' = runs + 1
    /\ target' = e
    /\ IF ~funcs[e].hasLayout THEN Abort("assert: layoutDecoration")
       ELSE IF funcs[e].uses # 0 THEN Abort("assert: !func->firstUse")
       ELSE IF funcs[e].type.result.k = "void" /\ getParamCount(funcs[e]) = 0
       THEN /\ completed' = completed \cup {e}
            /\ UNCHANGED <<funcs, globals, ty, exts, vers, diags, pc, cur, pp, ip, err, log,
                           orig>>
       ELSE EnterLoop(AtParameters(AfterResult(e)), e)

\* The world after parameter pp of function f is legalized.
AfterParam(e, param) ==
    IF param.layout.k # "var" THEN Fail(World(e), "assert: paramLayout")
    ELSE legalizeEntryPointParameterForGLSL(World(e), param, param.layout)

\* The loop goes on to the next parameter with world w.
NextParam(w) ==
    IF w.err # "" THEN Abort(w.err)
    ELSE /\ Commit(w, cur)
         /\ pp' = pp + 1
         /\ UNCHANGED <<pc, cur, err, completed, orig>>

\* One iteration of the parameter loop.
LegalizeParam ==
    /\ pc = "params"
    /\ funcs[cur].blocks # <<>>
    /\ pp <= Len(funcs[cur].params)
    /\ UNCHANGED <<runs, target>>
    /\ NextParam(AfterParam(cur, funcs[cur].params[pp]))

\* LegalizeFinish without the last step, the assignment of the function's
\* type: ParameterElimination tells the two apart.
LegalizeFinishKeepsType ==
    /\ pc = "params"
    /\ funcs[cur].blocks = <<>> \/ pp > Len(funcs[cur].params)
    /\ funcs' = [funcs EXCEPT ![cur].params = IF funcs[cur].blocks # <<>> THEN <<>> ELSE @]
    /\ pc' = "idle"
    /\ cur' = 0
    /\ completed' = completed \cup {cur}
    /\ UNCHANGED <<globals, ty, exts, vers, diags, pp, ip, err, runs, log, target, orig>>

\* After the loop: remove the parameters of the entry block and set the
\* type of the function to () -> void.
LegalizeFinish ==
    /\ pc = "params"
    /\ funcs[cur].blocks = <<>> \/ pp > Len(funcs[cur].params)
    /\ funcs' = [funcs EXCEPT ![cur].params = IF funcs[cur].blocks # <<>> THEN <<>> ELSE @,
                              ![cur].type = FuncType(<<>>, VoidType)]
    /\ pc' = "idle"
    /\ cur' = 0
    /\ completed' = completed \cup {cur}
    /\ UNCHANGED <<globals, ty, exts, vers, diags, pp, ip, err, runs, log, target, orig>>

Next ==
    \/ \E e \in 1..Len(funcs) : LegalizeBegin(e)
    \/ LegalizeParam
    \/ LegalizeFinish

(***************************************************************************)
(* Entry points the pass is run on.  A declared type is an IR type with    *)
(* the semantics of its struct fields: [d |-> "leaf", type], [d |->        *)
(* "void"], [d |-> "array", elem, count], [d |-> "stream", elem] or        *)
(* [d |-> "struct", name, fields], a field being [key, decl, sem].  From   *)
(* it come the IR type and the layout the earlier stages attach.           *)
(***************************************************************************)
DLeaf(t) == [d |-> "leaf", type |-> t]

DVoid == [d |-> "void"]

DArray(e, n) == [d |-> "array", elem |-> e, count |-> n]

DStream(e) == [d |-> "stream", elem |-> e]

DStruct(name, fields) == [d |-> "struct", name |-> name, fields |-> fields]

DField(key, decl, sem) == [key |-> key, decl |-> decl, sem |-> sem]

NoSemantic == <<>>

RECURSIVE IRTypeOf(_)

IRTypeOf(decl) ==
    IF decl.d = "leaf" THEN decl.type
    ELSE IF decl.d = "void" THEN VoidType
    ELSE IF decl.d = "array" THEN ArrayType(IRTypeOf(decl.elem), decl.count)
    ELSE IF decl.d = "stream" THEN StreamType(IRTypeOf(decl.elem))
    ELSE StructType(decl.name,
                    [i \in 1..Len(decl.fields) |->
                        [key |-> decl.fields[i].key, type |-> IRTypeOf(decl.fields[i].decl)]])

RECURSIVE SlotCount(_)
RECURSIVE SlotCountFields(_, _)

\* The number of binding slots a declared type uses.
SlotCount(decl) ==
    IF decl.d = "leaf" THEN 1
    ELSE IF decl.d = "void" THEN 0
    ELSE IF decl.d = "array" THEN decl.count * SlotCount(decl.elem)
    ELSE IF decl.d = "stream" THEN SlotCount(decl.elem)
    ELSE SlotCountFields(decl.fields, Len(decl.fields))

\* The slots of the first n fields.
SlotCountFields(fields, n) ==
    IF n = 0 THEN 0 ELSE SlotCountFields(fields, n - 1) + SlotCount(fields[n].decl)

KindOrder == <<"VaryingInput", "VaryingOutput">>

ResCounts(kinds, c) ==
    [i \in 1..Len(SelectSeq(KindOrder, LAMBDA k : k \in kinds)) |->
        [kind |-> SelectSeq(KindOrder, LAMBDA k : k \in kinds)[i], count |-> c]]

ResIndexes(kinds, index) ==
    [i \in 1..Len(SelectSeq(KindOrder, LAMBDA k : k \in kinds)) |->
        [kind |-> SelectSeq(KindOrder, LAMBDA k : k \in kinds)[i], index |-> index]]

RECURSIVE TypeLayoutOf(_, _)

TypeLayoutOf(decl, kinds) ==
    IF decl.d = "leaf" THEN SimpleTypeLayout(ResCounts(kinds, 1))
    ELSE IF decl.d = "void" THEN SimpleTypeLayout(<<>>)
    ELSE IF decl.d = "array"
    THEN ArrayTypeLayout(TypeLayoutOf(decl.elem, kinds), ResCounts(kinds, SlotCount(decl)))
    ELSE IF decl.d = "stream" THEN StreamOutputTypeLayout(TypeLayoutOf(decl.elem, kinds))
    ELSE StructTypeLayout(
            [i \in 1..Len(decl.fields) |->
                VarLayout(decl.fields[i].key, decl.fields[i].sem,
                          ResIndexes(kinds, SlotCountFields(decl.fields, i - 1)),
                          TypeLayoutOf(decl.fields[i].decl, kinds))],
            ResCounts(kinds, SlotCount(decl)))

\* A parameter as declared: [name, dir, decl, sem, callee, uses]; dir is
\* "in", "out" or "inout"; callee is what the body calls with a stream
\* parameter; uses is the number of uses the body has of another parameter.
ParamSpec(name, dir, decl, sem) ==
    [name |-> name, dir |-> dir, decl |-> decl, sem |-> sem, callee |-> EmitVertexSpecialized,
     uses |-> 1]

ParamKinds(dir) ==
    IF dir = "in" THEN {"VaryingInput"}
    ELSE IF dir = "out" THEN {"VaryingOutput"}
    ELSE {"VaryingInput", "VaryingOutput"}

ParamType(p) ==
    IF p.dir = "in" THEN IRTypeOf(p.decl)
    ELSE IF p.dir = "out" THEN PtrType("Out", IRTypeOf(p.decl))
    ELSE PtrType("InOut", IRTypeOf(p.decl))

RECURSIVE SlotsBefore(_, _, _)

\* The slots of kind that the parameters before parameter j use.
SlotsBefore(ps, j, kind) ==
    IF j <= 1 THEN 0
    ELSE SlotsBefore(ps, j - 1, kind)
         + (IF kind \in ParamKinds(ps[j-1].dir) THEN SlotCount(ps[j-1].decl) ELSE 0)

ParamLayout(ps, j) ==
    VarLayout(ps[j].name, ps[j].sem,
              [i \in 1..Len(ResIndexes(ParamKinds(ps[j].dir), 0)) |->
                  [kind |-> ResIndexes(ParamKinds(ps[j].dir), 0)[i].kind,
                   index |-> SlotsBefore(ps, j, ResIndexes(ParamKinds(ps[j].dir), 0)[i].kind)]],
              TypeLayoutOf(ps[j].decl, ParamKinds(ps[j].dir)))

\* The result as declared: [decl, sem].
ResultSpec(decl, sem) == [decl |-> decl, sem |-> sem]

ResultLayout(r) ==
    VarLayout("result", r.sem, ResIndexes({"VaryingOutput"}, 0),
              TypeLayoutOf(r.decl, {"VaryingOutput"}))

\* The instructions user code has for parameter p (id pid), numbered from
\* id, each with its data type: the uses of the parameter, and for a stream
\* parameter a payload, a call that appends it and a call that does not.
ParamInsts(p, pid, id) ==
    IF p.dir # "in" /\ p.decl.d = "stream"
    THEN << [inst |-> Inst(id, "use", <<>>, "", NoIdx), type |-> IRTypeOf(p.decl.elem)],
            [inst |-> Inst(id + 1, "call", <<p.callee, pid, id>>, "", NoIdx), type |-> VoidType],
            [inst |-> Inst(id + 2, "call", <<EndPrimitiveFunc, pid, id>>, "", NoIdx),
             type |-> VoidType] >>
    ELSE [k \in 1..p.uses |->
             [inst |-> Inst(id + k - 1, "use", <<pid>>, "", NoIdx), type |-> VoidType]]

RECURSIVE BodyFrom(_, _, _, _)

BodyFrom(ps, base, j, id) ==
    IF j > Len(ps) THEN <<>>
    ELSE LET s == ParamInsts(ps[j], base + j, id)
         IN  s \o BodyFrom(ps, base, j + 1, id + Len(s))

\* The body of an entry point, as typed instructions in blocks.  Shape
\* "straight" is one block; "branch" ends the entry block in a branch to
\* two blocks that both return.
TypedBlocks(ps, result, shape, base) ==
    LET uses == BodyFrom(ps, base, 1, base + Len(ps) + 1)
        v == base + Len(ps) + Len(uses) + 1
        isVoid == result.decl.d = "void"
        value == IF isVoid THEN <<>>
                 ELSE << [inst |-> Inst(v, "use", <<>>, "", NoIdx), type |-> IRTypeOf(result.decl)] >>
        t == v + Len(value)
        ret(id) == IF isVoid
                   THEN [inst |-> Inst(id, "returnVoid", <<>>, "", NoIdx), type |-> VoidType]
                   ELSE [inst |-> Inst(id, "returnVal", <<v>>, "", NoIdx), type |-> VoidType]
    IN  IF shape = "straight" THEN << uses \o value \o <<ret(t)>> >>
        ELSE << uses \o value
                  \o << [inst |-> Inst(t, "ifElse", <<>>, "", NoIdx), type |-> VoidType] >>,
                << ret(t + 1) >>,
                << [inst |-> Inst(t + 2, "use", <<>>, "", NoIdx), type |-> VoidType],
                   ret(t + 3) >> >>

RECURSIVE Flatten(_)

Flatten(seqs) == IF seqs = <<>> THEN <<>> ELSE Head(seqs) \o Flatten(Tail(seqs))

\* An entry point as the pass finds it: [stage, result, params, shape].
EntrySpec(stage, result, params, shape) ==
    [stage |-> stage, result |-> result, params |-> params, shape |-> shape, defect |-> "none"]

\* Function f with a defect that the front end is meant to rule out: a use
\* of the function, no entry-point layout, no layout on the last parameter,
\* or the type layout of a leaf in place of the type layout of the last
\* parameter, of its first field or of the result.
Broken(f, defect) ==
    IF defect = "used" THEN [f EXCEPT !.uses = 1]
    ELSE IF defect = "noLayout" THEN [f EXCEPT !.hasLayout = FALSE]
    ELSE IF defect = "paramNoLayout" THEN [f EXCEPT !.params[Len(f.params)].layout = NullLayout]
    ELSE IF defect = "typeLayout"
    THEN [f EXCEPT !.params[Len(f.params)].layout.typeLayout = SimpleTypeLayout(@.res)]
    ELSE IF defect = "fieldTypeLayout"
    THEN [f EXCEPT !.params[Len(f.params)].layout.typeLayout.fields[1].typeLayout =
                       SimpleTypeLayout(@.res)]
    ELSE IF defect = "resultTypeLayout"
    THEN [f EXCEPT !.resultLayout.typeLayout = SimpleTypeLayout(@.res)]
    ELSE f

WellFormedFunc(s, base) ==
    LET tb == TypedBlocks(s.params, s.result, s.shape, base)
    IN  [name |-> "main", stage |-> s.stage, hasLayout |-> TRUE,
         resultLayout |-> IF s.result.decl.d = "void" THEN NullLayout ELSE ResultLayout(s.result),
         type |-> FuncType([j \in 1..Len(s.params) |-> ParamType(s.params[j])],
                           IRTypeOf(s.result.decl)),
         params |-> [j \in 1..Len(s.params) |->
                        [id |-> base + j, type |-> ParamType(s.params[j]),
                         layout |-> ParamLayout(s.params, j)]],
         blocks |-> [b \in 1..Len(tb) |-> [i \in 1..Len(tb[b]) |-> tb[b][i].inst]],
         uses |-> 0, deps |-> <<>>]

EntryFunc(s, base) == Broken(WellFormedFunc(s, base), s.defect)

EntryTypes(s, base) ==
    LET all == Flatten(TypedBlocks(s.params, s.result, s.shape, base))
    IN  [j \in 1..Len(s.params) |-> ParamType(s.params[j])]
        \o [i \in 1..Len(all) |-> all[i].type]

ModuleTypes == [i \in 1..Len(ModuleInsts) |-> NullType]

(***************************************************************************)
(* The inputs of the model.                                                *)
(***************************************************************************)
sv_bogus == <<"s","v","_","b","o","g","u","s">>

SemanticNames ==
    { sv_position, sv_target, sv_clipdistance, sv_culldistance, sv_coverage, sv_depth,
      sv_depthgreaterequal, sv_depthlessequal, sv_dispatchthreadid, sv_domainlocation,
      sv_groupid, sv_groupindex, sv_groupthreadid, sv_gsinstanceid, sv_instanceid,
      sv_isfrontface, sv_outputcontrolpointid, sv_pointsize, sv_primitiveid,
      sv_rendertargetarrayindex, sv_sampleindex, sv_stencilref, sv_tessfactor,
      sv_vertexid, sv_viewportarrayindex, nv_x_right, nv_viewport_mask }

AllUpper(s) == [i \in 1..Len(s) |-> ToUpperChar(s[i])]

\* SV_Position from sv_position: the prefix and the first letter in capitals.
Capitalized(s) == [i \in 1..Len(s) |-> IF i <= 4 THEN ToUpperChar(s[i]) ELSE s[i]]

Spellings(s) == {s, AllUpper(s), Capitalized(s)}

AllSpellings == UNION {Spellings(s) : s \in SemanticNames \cup {sv_bogus}} \cup {NoSemantic}

ParamNames == <<"p1", "p2", "p3", "p4">>

Foo == DStruct("Foo", << DField("a", DLeaf(TFloat), NoSemantic),
                         DField("b", DLeaf(Float2), NoSemantic) >>)

Vert == DStruct("Vert", << DField("pos", DLeaf(Float4), Capitalized(sv_position)),
                           DField("id", DLeaf(TUInt), Capitalized(sv_instanceid)) >>)

Nested == DStruct("Nested", << DField("f", Foo, NoSemantic),
                               DField("c", DLeaf(TFloat), NoSemantic) >>)

Holder(n) == DStruct("Holder", << DField("items", DArray(Foo, n), NoSemantic),
                                  DField("w", DLeaf(TFloat), NoSemantic) >>)

Counts == 1..MaxCount

\* Leaf sweep: one leaf, as a parameter or as the result, with any spelling.
LeafEntries ==
    { EntrySpec(stage, ResultSpec(DVoid, NoSemantic),
                << ParamSpec(ParamNames[1], dir, DLeaf(t), sem) >>, "straight") :
        stage \in {"Vertex", "Fragment", "Geometry"}, dir \in {"in", "out"},
        t \in {Float4, TUInt}, sem \in AllSpellings }
    \cup
    { EntrySpec(stage, ResultSpec(DLeaf(t), sem), <<>>, "straight") :
        stage \in {"Vertex", "Fragment", "Geometry"},
        t \in {Float4, TUInt}, sem \in AllSpellings }

\* Type sweep: one aggregate, in every direction.
TypeCat ==
    { [decl |-> d, sem |-> NoSemantic] :
        d \in {Foo, Vert, Nested, DLeaf(MatrixType(TFloat, 4, 4))} }
    \cup { [decl |-> DArray(DLeaf(TFloat), n), sem |-> sem] :
             n \in Counts, sem \in {NoSemantic, Capitalized(sv_clipdistance),
                                    Capitalized(sv_tessfactor)} }
    \cup { [decl |-> DArray(d, n), sem |-> NoSemantic] :
             n \in Counts, d \in {Foo, Vert, DLeaf(TUInt)} }
    \cup { [decl |-> DArray(DArray(d, m), n), sem |-> NoSemantic] :
             n \in Counts, m \in Counts, d \in {Foo, DLeaf(TFloat)} }
    \cup { [decl |-> Holder(n), sem |-> NoSemantic] : n \in Counts }
    \cup { [decl |-> DArray(Holder(m), n), sem |-> NoSemantic] : n \in Counts, m \in Counts }
    \cup { [decl |-> DLeaf(TUInt), sem |-> Capitalized(sv_instanceid)] }

TypeEntries ==
    { EntrySpec(stage, ResultSpec(DVoid, NoSemantic),
                << ParamSpec(ParamNames[1], dir, c.decl, c.sem) >>, shape) :
        stage \in {"Vertex", "ClosestHit"}, dir \in {"in", "out", "inout"},
        c \in TypeCat, shape \in {"straight", "branch"} }
    \cup
    { EntrySpec(stage, ResultSpec(c.decl, c.sem), <<>>, shape) :
        stage \in {"Vertex", "ClosestHit"}, c \in TypeCat, shape \in {"straight", "branch"} }

\* Parameter lists: every list of at most MaxParams parameters of ParamCat.
ParamCat ==
    { [dir |-> "in", decl |-> DLeaf(TFloat), sem |-> NoSemantic],
      [dir |-> "in", decl |-> DLeaf(TUInt), sem |-> Capitalized(sv_vertexid)],
      [dir |-> "out", decl |-> DLeaf(Float4), sem |-> Capitalized(sv_position)],
      [dir |-> "inout", decl |-> Foo, sem |-> NoSemantic],
      [dir |-> "out", decl |-> DStream(Vert), sem |-> NoSemantic] }

ParamLists == UNION { [1..n -> ParamCat] : n \in 0..MaxParams }

ListEntries ==
    { EntrySpec(stage, result,
                [j \in 1..Len(ps) |-> ParamSpec(ParamNames[j], ps[j].dir, ps[j].decl, ps[j].sem)],
                shape) :
        stage \in {"Vertex", "Geometry", "ClosestHit"},
        result \in {ResultSpec(DVoid, NoSemantic),
                    ResultSpec(DLeaf(Float4), Capitalized(sv_target))},
        ps \in ParamLists, shape \in {"straight", "branch"} }

\* Stream parameters whose body calls each kind of callee.
StreamEntries ==
    { EntrySpec("Geometry", ResultSpec(DVoid, NoSemantic),
                << [ParamSpec(ParamNames[1], "out", DStream(d), NoSemantic)
                        EXCEPT !.callee = c] >>, "straight") :
        c \in 1..Len(ModuleInsts), d \in {Vert, Foo, DLeaf(Float4)} }

\* Parameters that the body uses twice, and in a ray-tracing stage
\* parameters that it does not use.
UseEntries ==
    { EntrySpec(u.stage, ResultSpec(DVoid, NoSemantic),
                << [ParamSpec(ParamNames[1], dir, c.decl, c.sem) EXCEPT !.uses = u.uses] >>,
                shape) :
        u \in { [stage |-> "Vertex", uses |-> 2], [stage |-> "ClosestHit", uses |-> 2] }
               \cup { [stage |-> st, uses |-> 0] : st \in RayTracingStages },
        dir \in {"in", "out", "inout"},
        c \in { [decl |-> DLeaf(TFloat), sem |-> NoSemantic],
                [decl |-> DLeaf(TUInt), sem |-> Capitalized(sv_vertexid)],
                [decl |-> Foo, sem |-> NoSemantic],
                [decl |-> DArray(Foo, MaxCount), sem |-> NoSemantic] },
        shape \in {"straight", "branch"} }

\* Entry points with a defect.
DefectCat ==
    { [result |-> ResultSpec(DVoid, NoSemantic), params |-> <<>>,
       defects |-> {"used", "noLayout"}],
      [result |-> ResultSpec(Foo, NoSemantic), params |-> <<>>,
       defects |-> {"used", "noLayout", "resultTypeLayout"}],
      [result |-> ResultSpec(DArray(DLeaf(TFloat), MaxCount), NoSemantic), params |-> <<>>,
       defects |-> {"resultTypeLayout"}] }
    \cup
    { [result |-> ResultSpec(DVoid, NoSemantic),
       params |-> first \o << ParamSpec(ParamNames[Len(first) + 1], dir, c.decl, NoSemantic) >>,
       defects |-> c.defects] :
        first \in { <<>>, << ParamSpec(ParamNames[1], "inout", Foo, NoSemantic) >> },
        dir \in {"in", "out", "inout"},
        c \in { [decl |-> DLeaf(TFloat), defects |-> {"used", "noLayout", "paramNoLayout"}],
                [decl |-> Foo, defects |-> {"paramNoLayout", "typeLayout"}],
                [decl |-> DArray(DLeaf(TFloat), MaxCount), defects |-> {"typeLayout"}],
                [decl |-> DArray(Foo, MaxCount), defects |-> {"typeLayout"}],
                [decl |-> Holder(MaxCount), defects |-> {"fieldTypeLayout"}],
                [decl |-> Nested, defects |-> {"fieldTypeLayout"}] } }
    \cup
    { [result |-> ResultSpec(DVoid, NoSemantic),
       params |-> << ParamSpec(ParamNames[1], "out", DStream(Vert), NoSemantic) >>,
       defects |-> {"paramNoLayout", "typeLayout"}] }

DefectEntries ==
    UNION { { [EntrySpec(stage, c.result, c.params, "straight") EXCEPT !.defect = d] :
                stage \in {"Vertex", "Geometry", "ClosestHit"}, d \in c.defects } :
            c \in DefectCat }

EntrySpecs ==
    LeafEntries \cup TypeEntries \cup ListEntries \cup StreamEntries \cup UseEntries
    \cup DefectEntries

Init ==
    /\ \E s \in EntrySpecs :
          /\ funcs = << EntryFunc(s, Len(ModuleInsts)) >>
          /\ ty = ModuleTypes \o EntryTypes(s, Len(ModuleInsts))
    /\ globals = <<>>
    /\ exts = {}
    /\ vers = {}
    /\ diags = <<>>
    /\ pc = "idle"
    /\ cur = 0
    /\ pp = 1
    /\ ip = InsertIntoFunc
    /\ err = ""
    /\ runs = 0
    /\ log = <<>>
    /\ completed = {}
    /\ target = 0
    /\ orig = funcs

Spec == Init /\ [][Next]_vars

\* Entry points for a module of two.
PairCat ==
    { EntrySpec("Vertex", ResultSpec(DLeaf(Float4), Capitalized(sv_position)),
                << ParamSpec(ParamNames[1], "in", Foo, NoSemantic) >>, "straight"),
      EntrySpec("Vertex", ResultSpec(DVoid, NoSemantic),
                << ParamSpec(ParamNames[1], "inout", Foo, NoSemantic),
                   ParamSpec(ParamNames[2], "in", DLeaf(TUInt), Capitalized(sv_vertexid)) >>,
                "branch"),
      EntrySpec("Geometry", ResultSpec(DVoid, NoSemantic),
                << ParamSpec(ParamNames[1], "out", DStream(Vert), NoSemantic) >>, "straight"),
      EntrySpec("ClosestHit", ResultSpec(DVoid, NoSemantic),
                << ParamSpec(ParamNames[1], "inout", Foo, NoSemantic) >>, "straight"),
      EntrySpec("Fragment", ResultSpec(DLeaf(Float4), Capitalized(sv_target)), <<>>, "branch"),
      EntrySpec("Vertex", ResultSpec(DVoid, NoSemantic), <<>>, "straight"),
      EntrySpec("Vertex", ResultSpec(DVoid, NoSemantic),
                << ParamSpec(ParamNames[1], "in", DLeaf(TFloat), sv_bogus) >>, "straight"),
      EntrySpec("Vertex", ResultSpec(DVoid, NoSemantic),
                << ParamSpec(ParamNames[1], "inout", DLeaf(TUInt), Capitalized(sv_vertexid)) >>,
                "straight") }

\* A module with two entry points, A before B.
InitPair ==
    /\ \E a \in PairCat : \E b \in PairCat :
          /\ funcs = << EntryFunc(a, Len(ModuleInsts)),
                        EntryFunc(b, Len(ModuleInsts) + Len(EntryTypes(a, Len(ModuleInsts)))) >>
          /\ ty = ModuleTypes \o EntryTypes(a, Len(ModuleInsts))
                  \o EntryTypes(b, Len(ModuleInsts) + Len(EntryTypes(a, Len(ModuleInsts))))
    /\ globals = <<>>
    /\ exts = {}
    /\ vers = {}
    /\ diags = <<>>
    /\ pc = "idle"
    /\ cur = 0
    /\ pp = 1
    /\ ip = InsertIntoFunc
    /\ err = ""
    /\ runs = 0
    /\ log = <<>>
    /\ completed = {}
    /\ target = 0
    /\ orig = funcs

SpecPair == InitPair /\ [][Next]_vars

(***************************************************************************)
(* assign on operands of every flavor.  The body has a value and a         *)
(* variable of each of the types float, float2, uint and Foo, with ids     *)
(* AssignBase + 1 .. AssignBase + 8, and a return; log keeps each call:    *)
(* its operands, its error and the body it left.                           *)
(***************************************************************************)
AssignBase == Len(ModuleInsts)

AssignTypes == << TFloat, Float2, TUInt, IRTypeOf(Foo) >>

AssignBody ==
    [i \in 1..9 |->
        IF i <= 4 THEN Inst(AssignBase + i, "use", <<>>, "", NoIdx)
        ELSE IF i <= 8 THEN Inst(AssignBase + i, "var", <<>>, "", NoIdx)
        ELSE Inst(AssignBase + i, "returnVoid", <<>>, "", NoIdx)]

AssignFunc(stage) ==
    [name |-> "main", stage |-> stage, hasLayout |-> TRUE, resultLayout |-> NullLayout,
     type |-> FuncType(<<>>, VoidType), params |-> <<>>, blocks |-> << AssignBody >>,
     uses |-> 0, deps |-> <<>>]

AssignVals ==
    { NoneVal }
    \cup { ValueVal(AssignBase + i) : i \in 1..4 }
    \cup { AddressVal(AssignBase + i) : i \in 5..8 }
    \cup { TupleVal(IRTypeOf(Foo), << Element("a", AddressVal(AssignBase + 5)),
                                      Element("b", AddressVal(AssignBase + 6)) >>),
           TupleVal(IRTypeOf(Foo), << Element("a", ValueVal(AssignBase + 1)),
                                      Element("b", ValueVal(AssignBase + 2)) >>),
           TupleVal(IRTypeOf(Foo),
                    << Element("a", TypeAdapterVal(AddressVal(AssignBase + 7), TUInt, TFloat)),
                       Element("b", AddressVal(AssignBase + 6)) >>),
           TypeAdapterVal(AddressVal(AssignBase + 7), TUInt, TInt),
           TypeAdapterVal(ValueVal(AssignBase + 3), TUInt, TInt) }

InitAssign ==
    /\ \E stage \in {"Vertex", "Fragment"} : funcs = << AssignFunc(stage) >>
    /\ ty = ModuleTypes \o AssignTypes
            \o [i \in 1..4 |-> PtrType("Ptr", AssignTypes[i])] \o << VoidType >>
    /\ globals = <<>>
    /\ exts = {}
    /\ vers = {}
    /\ diags = <<>>
    /\ pc = "idle"
    /\ cur = 0
    /\ pp = 1
    /\ ip = InsertBefore(1, AssignBase + 9)
    /\ err = ""
    /\ runs = 0
    /\ log = <<>>
    /\ completed = {}
    /\ target = 0
    /\ orig = funcs

\* The state after a call of assign that left world w.
Assigned(w, left, right) ==
    /\ log' = Append(log, [left |-> left, right |-> right, err |-> w.err, blocks |-> w.blocks])
    /\ funcs' = IF w.err = "" THEN [funcs EXCEPT ![1].blocks = w.blocks] ELSE funcs
    /\ ty' = IF w.err = "" THEN w.ty ELSE ty
    /\ pc' = IF w.err = "" THEN "idle" ELSE "aborted"
    /\ err' = w.err
    /\ UNCHANGED <<globals, exts, vers, diags, cur, pp, ip, runs, completed, target, orig>>

\* One call of assign, before the return of the body.
AssignStep ==
    /\ pc = "idle"
    /\ log = <<>>
    /\ \E left \in AssignVals : \E right \in AssignVals :
          Assigned(assign(World(1), left, right), left, right)

NextAssign == AssignStep

SpecAssign == InitAssign /\ [][NextAssign]_vars

(***************************************************************************)
(* The materializer on its own: one call of createGLSLGlobalVaryings for   *)
(* the one parameter of an entry point, whatever the rest of the pass      *)
(* would make of the result.                                               *)
(***************************************************************************)
VaryingCat ==
    TypeCat
    \cup { [decl |-> DArray(d, n), sem |-> NoSemantic] : n \in Counts, d \in {Nested, Holder(1)} }
    \cup { [decl |-> DArray(DLeaf(TUInt), n), sem |-> Capitalized(sv_instanceid)] : n \in Counts }
    \cup { [decl |-> DStream(DArray(Foo, n)), sem |-> NoSemantic] : n \in Counts }

VaryingEntries ==
    { EntrySpec(stage, ResultSpec(DVoid, NoSemantic),
                << ParamSpec(ParamNames[1], dir, c.decl, c.sem) >>, "straight") :
        stage \in {"Vertex", "Geometry"}, dir \in {"in", "out"}, c \in VaryingCat }

InitVaryings ==
    /\ \E s \in VaryingEntries :
          /\ funcs = << EntryFunc(s, Len(ModuleInsts)) >>
          /\ ty = ModuleTypes \o EntryTypes(s, Len(ModuleInsts))
    /\ globals = <<>>
    /\ exts = {}
    /\ vers = {}
    /\ diags = <<>>
    /\ pc = "idle"
    /\ cur = 0
    /\ pp = 1
    /\ ip = InsertIntoFunc
    /\ err = ""
    /\ runs = 0
    /\ log = <<>>
    /\ completed = {}
    /\ target = 0
    /\ orig = funcs

\* The state after a call of createGLSLGlobalVaryings that left world w.
Materialized(w) ==
    /\ globals' = w.globals
    /\ ty' = w.ty
    /\ exts' = w.exts
    /\ vers' = w.vers
    /\ diags' = w.diags
    /\ log' = w.log
    /\ err' = w.err
    /\ pc' = IF w.err = "" THEN "idle" ELSE "aborted"
    /\ UNCHANGED <<funcs, cur, pp, ip, runs, completed, target, orig>>

\* One call of createGLSLGlobalVaryings: for input globals for an in
\* parameter, for output globals for an out parameter.
VaryingsStep ==
    /\ pc = "idle"
    /\ log = <<>>
    /\ Materialized(
          createGLSLGlobalVaryings(
              BeginWorld(1),
              IF IsOutTypeBase(funcs[1].params[1].type) THEN funcs[1].params[1].type.value
              ELSE funcs[1].params[1].type,
              funcs[1].params[1].layout,
              IF IsOutTypeBase(funcs[1].params[1].type) THEN "VaryingOutput"
              ELSE "VaryingInput",
              funcs[1].stage).w)

SpecVaryings == InitVaryings /\ [][VaryingsStep]_vars

TypeOK ==
    /\ pc \in {"idle", "params", "aborted"}
    /\ runs \in 0..MaxRuns

(***************************************************************************)
(* Properties of the pass.                                                 *)
(***************************************************************************)
\* The last instruction of a non-empty block.
Terminator(block) == block[Len(block)]

\* The blocks of function f that end in a return.
ReturningBlocks(f) ==
    {b \in 1..Len(f.blocks) : f.blocks[b] # <<>> /\ IsReturn(Terminator(f.blocks[b]))}

\* C1: once the pass has returned on an entry point, the entry block of the
\* function has no parameters and the type of the function is the function
\* type with no parameters and a void result.
ParameterElimination ==
    \A e \in completed :
        /\ funcs[e].params = <<>>
        /\ funcs[e].type = FuncType(<<>>, VoidType)

\* The pass has returned on an entry point that had parameters of more than
\* one direction and a non-void result.
ParameterEliminationWitness ==
    /\ 1 \in completed
    /\ orig[1].type.result # VoidType
    /\ Len(orig[1].params) >= 2
    /\ \E i, j \in 1..Len(orig[1].params) :
          IsOutTypeBase(orig[1].params[i].type) /\ ~IsOutTypeBase(orig[1].params[j].type)

\* C2: once the pass has returned on an entry point, no returnVal is left
\* in its body; the blocks are those of the original body, every block that
\* ended in a returnVal or a returnVoid ends in a returnVoid, and no other
\* block does.
ReturnNormalization ==
    \A e \in completed :
        /\ \A b \in 1..Len(funcs[e].blocks) :
              \A i \in 1..Len(funcs[e].blocks[b]) : funcs[e].blocks[b][i].op # "returnVal"
        /\ Len(funcs[e].blocks) = Len(orig[e].blocks)
        /\ \A b \in ReturningBlocks(orig[e]) :
              /\ funcs[e].blocks[b] # <<>>
              /\ Terminator(funcs[e].blocks[b]).op = "returnVoid"
        /\ ReturningBlocks(funcs[e]) = ReturningBlocks(orig[e])

\* The pass has returned on an entry point of which two blocks ended in a
\* returnVal.
ReturnNormalizationWitness ==
    /\ 1 \in completed
    /\ \E b, c \in 1..Len(orig[1].blocks) :
          /\ b # c
          /\ Terminator(orig[1].blocks[b]).op = "returnVal"
          /\ Terminator(orig[1].blocks[c]).op = "returnVal"

\* An entry point the pass has nothing to do on: decorated, unused, with no
\* parameters and a void result.
AlreadyLegal(f) ==
    /\ f.hasLayout
    /\ f.uses = 0
    /\ f.params = <<>>
    /\ f.type = FuncType(<<>>, VoidType)

\* C3: a run of the pass on an entry point with no parameters and a void
\* result returns at once (it never enters the parameter loop, after which
\* the function type is assigned) and changes neither the functions, the
\* global parameters, the instructions' types, the extension tracker nor the
\* diagnostic sink.
Idempotence ==
    [][ \A e \in 1..Len(funcs) :
          (runs' = runs + 1 /\ target' = e /\ AlreadyLegal(funcs[e]))
          => /\ pc' = "idle"
             /\ e \in completed'
             /\ UNCHANGED <<funcs, globals, ty, exts, vers, diags, log, ip>> ]_vars

\* The pass has run a second time, on the output of its first run, which
\* had created global parameters.
IdempotenceWitness ==
    /\ runs = 2
    /\ pc = "idle"
    /\ completed = {1}
    /\ target = 1
    /\ orig[1].params # <<>>
    /\ globals # <<>>

\* The index a var layout records for a kind, 0 when it records none.
OwnIndex(varLayout, kind) ==
    IF \E i \in 1..Len(varLayout.res) : varLayout.res[i].kind = kind
    THEN varLayout.res[CHOOSE i \in 1..Len(varLayout.res) :
                          /\ varLayout.res[i].kind = kind
                          /\ \A j \in 1..(i - 1) : varLayout.res[j].kind # kind].index
    ELSE 0

RECURSIVE Leaves(_, _, _, _, _, _)
RECURSIVE LeavesOfFields(_, _, _, _, _, _)

\* The varying leaves of a declared type, in declaration order: for each
\* its type, the var layout that declares it (of the nearest enclosing
\* field, else of the parameter or result), the counts of the arrays around
\* it (outermost first) and its binding index.
Leaves(type, varLayout, typeLayout, kind, index, counts) ==
    IF type.k = "void" THEN <<>>
    ELSE IF type.k = "array"
    THEN Leaves(type.elem, varLayout, typeLayout.elementTypeLayout, kind, index,
                Append(counts, type.count))
    ELSE IF type.k = "stream"
    THEN Leaves(type.elem, varLayout, typeLayout.elementTypeLayout, kind, index, counts)
    ELSE IF type.k = "struct" THEN LeavesOfFields(type, typeLayout, kind, index, counts, 1)
    ELSE << [type |-> type, decl |-> varLayout, counts |-> counts, index |-> index] >>

LeavesOfFields(type, typeLayout, kind, index, counts, i) ==
    IF i > Len(type.fields) THEN <<>>
    ELSE Leaves(type.fields[i].type, typeLayout.fields[i], typeLayout.fields[i].typeLayout,
                kind, index + OwnIndex(typeLayout.fields[i], kind), counts)
         \o LeavesOfFields(type, typeLayout, kind, index, counts, i + 1)

\* The leaves of the request of a logged call of the materializer.
LeavesOf(entry) ==
    Leaves(entry.type, entry.layout, entry.layout.typeLayout, entry.kind,
           OwnIndex(entry.layout, entry.kind), <<>>)

\* The global the call log[i] created for leaf j of its request.
GlobalOf(i, j) == globals[log[i].first + j - 1]

\* The (call, leaf) pairs of all the logged calls.
LoggedLeaves ==
    {c \in (1..Len(log)) \X (1..Len(globals)) : c[2] <= Len(LeavesOf(log[c[1]]))}

\* The semantic leaf c was declared with.
SemanticOf(c) == LeavesOf(log[c[1]])[c[2]].decl.systemValueSemantic

\* The requests the signature of f has for the materializer: one for a
\* non-void result, one for the payload of a geometry stream, and outside
\* the ray-tracing stages one for an in or out parameter and two, an input
\* and an output one, for an inout parameter.
RequestsOfParam(f, p) ==
    IF IsOutTypeBase(p.type) /\ p.type.value.k = "stream"
    THEN {[type |-> p.type.value, layout |-> p.layout, kind |-> "VaryingOutput"]}
    ELSE IF f.stage \in RayTracingStages THEN {}
    ELSE IF IsOutTypeBase(p.type)
    THEN {[type |-> p.type.value, layout |-> p.layout, kind |-> k] :
            k \in IF p.type.op = "InOut" THEN {"VaryingInput", "VaryingOutput"}
                                         ELSE {"VaryingOutput"}}
    ELSE {[type |-> p.type, layout |-> p.layout, kind |-> "VaryingInput"]}

RequestsOf(f) ==
    (IF f.type.result = VoidType THEN {}
     ELSE {[type |-> f.type.result, layout |-> f.resultLayout, kind |-> "VaryingOutput"]})
    \cup UNION {RequestsOfParam(f, f.params[j]) : j \in 1..Len(f.params)}

RequestOf(entry) == [type |-> entry.type, layout |-> entry.layout, kind |-> entry.kind]

\* C4: every call of the materializer creates exactly one global per
\* varying leaf of the type it is asked for, in order, and the global has
\* one layout decoration with exactly one resource entry, of the kind asked
\* for, at the leaf's binding index; and once the pass has returned on an
\* entry point, each request of its signature was served exactly once.
GlobalParameterCreation ==
    /\ \A i \in 1..Len(log) :
          /\ log[i].last - log[i].first + 1 = Len(LeavesOf(log[i]))
          /\ log[i].last <= Len(globals)
          /\ \A j \in 1..Len(LeavesOf(log[i])) :
                /\ Len(GlobalOf(i, j).layout) = 1
                /\ GlobalOf(i, j).layout[1].res =
                      << [kind |-> log[i].kind, index |-> LeavesOf(log[i])[j].index] >>
    /\ \A e \in completed :
          \A r \in RequestsOf(orig[e]) :
              Cardinality({i \in 1..Len(log) : RequestOf(log[i]) = r}) = 1

\* The pass has returned on an entry point with an inout parameter of a
\* struct type: two calls, four globals, the second field's not at the
\* parameter's own index.
GlobalParameterCreationWitness ==
    /\ 1 \in completed
    /\ \E i, k \in 1..Len(log) :
          /\ log[i].layout = log[k].layout
          /\ log[i].kind = "VaryingInput"
          /\ log[k].kind = "VaryingOutput"
          /\ log[i].type.k = "struct"
          /\ Len(LeavesOf(log[k])) = 2
          /\ LeavesOf(log[k])[2].index # OwnIndex(log[k].layout, "VaryingOutput")
          /\ GlobalOf(k, 2).layout[1].res[1].index = LeavesOf(log[k])[2].index

\* Case-insensitive equality of two names, letter by letter.
SameName(a, b) ==
    /\ Len(a) = Len(b)
    /\ \A i \in 1..Len(a) : ToUpperChar(a[i]) = ToUpperChar(b[i])

\* The rows of the mapping table that name a built-in, sv_position apart.
BuiltinRows ==
    { <<sv_clipdistance, "gl_ClipDistance">>, <<sv_culldistance, "gl_CullDistance">>,
      <<sv_coverage, "gl_SampleMask">>, <<sv_depth, "gl_FragDepth">>,
      <<sv_depthgreaterequal, "gl_FragDepth">>, <<sv_depthlessequal, "gl_FragDepth">>,
      <<sv_dispatchthreadid, "gl_GlobalInvocationID">>, <<sv_domainlocation, "gl_TessCoord">>,
      <<sv_groupid, "gl_WorkGroupID">>, <<sv_groupindex, "gl_LocalInvocationIndex">>,
      <<sv_groupthreadid, "gl_LocalInvocationID">>, <<sv_gsinstanceid, "gl_InvocationID">>,
      <<sv_outputcontrolpointid, "gl_InvocationID">>, <<sv_instanceid, "gl_InstanceIndex">>,
      <<sv_isfrontface, "gl_FrontFacing">>, <<sv_pointsize, "gl_PointSize">>,
      <<sv_primitiveid, "gl_PrimitiveID">>, <<sv_rendertargetarrayindex, "gl_Layer">>,
      <<sv_sampleindex, "gl_SampleID">>, <<sv_stencilref, "gl_FragStencilRef">>,
      <<sv_tessfactor, "gl_TessLevelOuter">>, <<sv_vertexid, "gl_VertexIndex">>,
      <<sv_viewportarrayindex, "gl_ViewportIndex">>,
      <<nv_x_right, "gl_PositionPerViewNV[1]">>,
      <<nv_viewport_mask, "gl_ViewportMaskPerViewNV">> }

\* C5: a global created for a leaf whose semantic is, in any letter case, a
\* row of the mapping table that names a built-in has exactly that name as
\* its import decoration (for sv_position gl_FragCoord as a fragment input
\* and gl_Position otherwise), and it has an outer-array decoration, gl_in,
\* exactly when it is sv_position as a geometry input.
SystemValueBinding ==
    \A c \in LoggedLeaves :
        /\ \A row \in BuiltinRows :
              SameName(SemanticOf(c), row[1])
              => /\ GlobalOf(c[1], c[2]).import = << row[2] >>
                 /\ GlobalOf(c[1], c[2]).outerArray = <<>>
        /\ SameName(SemanticOf(c), sv_position)
           => /\ GlobalOf(c[1], c[2]).import =
                    << IF log[c[1]].stage = "Fragment" /\ log[c[1]].kind = "VaryingInput"
                       THEN "gl_FragCoord" ELSE "gl_Position" >>
              /\ GlobalOf(c[1], c[2]).outerArray =
                    IF log[c[1]].stage = "Geometry" /\ log[c[1]].kind = "VaryingInput"
                    THEN << "gl_in" >> ELSE <<>>

\* The pass has returned on a geometry entry point whose input SV_POSITION
\* became gl_Position in gl_in.
SystemValueBindingWitness ==
    /\ 1 \in completed
    /\ \E c \in LoggedLeaves :
          /\ SemanticOf(c) = AllUpper(sv_position)
          /\ log[c[1]].stage = "Geometry"
          /\ GlobalOf(c[1], c[2]).outerArray = << "gl_in" >>
          /\ GlobalOf(c[1], c[2]).import = << "gl_Position" >>

\* The requirements of the table for the semantic name n in a stage.
TableExtensions(n, stage) ==
    IF SameName(n, sv_culldistance) THEN {"ARB_cull_distance"}
    ELSE IF SameName(n, sv_stencilref) THEN {"ARB_shader_stencil_export"}
    ELSE IF SameName(n, nv_x_right) \/ SameName(n, nv_viewport_mask)
    THEN {"GL_NVX_multiview_per_view_attributes"}
    ELSE IF SameName(n, sv_rendertargetarrayindex) /\ stage \notin {"Geometry", "Fragment"}
    THEN {"GL_ARB_shader_viewport_layer_array"}
    ELSE {}

TableVersions(n, stage) ==
    IF SameName(n, nv_x_right) \/ SameName(n, nv_viewport_mask) THEN {"GLSL_450"}
    ELSE IF SameName(n, sv_rendertargetarrayindex)
    THEN {IF stage = "Geometry" THEN "GLSL_150"
          ELSE IF stage = "Fragment" THEN "GLSL_430" ELSE "GLSL_450"}
    ELSE {}

\* C6: the extensions and the versions on the tracker are exactly those the
\* table gives for the semantics of the leaves resolved so far, in the
\* stage of the entry point.
ExtensionRequirements ==
    /\ exts = UNION {TableExtensions(SemanticOf(c), log[c[1]].stage) : c \in LoggedLeaves}
    /\ vers = UNION {TableVersions(SemanticOf(c), log[c[1]].stage) : c \in LoggedLeaves}

\* A fragment entry point with SV_RenderTargetArrayIndex: GLSL 430 alone.
ExtensionRequirementsWitness ==
    /\ 1 \in completed
    /\ funcs[1].stage = "Fragment"
    /\ \E c \in LoggedLeaves : SemanticOf(c) = Capitalized(sv_rendertargetarrayindex)
    /\ vers = {"GLSL_430"}
    /\ exts = {}

\* The semantic is not empty and no entry of the table, in any letter case.
IsUnknownSemantic(n) ==
    /\ n # <<>>
    /\ \A m \in SemanticNames : ~SameName(n, m)

RECURSIVE ArrayOver(_, _)

\* The array type with the counts, outermost first, over a leaf type.
ArrayOver(type, counts) ==
    IF counts = <<>> THEN type
    ELSE ArrayType(ArrayOver(type, Tail(counts)), Head(counts))

\* The type of the global of an ordinary varying leaf.
OrdinaryGlobalType(leaf, kind) ==
    IF kind = "VaryingOutput" THEN PtrType("Out", ArrayOver(leaf.type, leaf.counts))
    ELSE ArrayOver(leaf.type, leaf.counts)

RECURSIVE LeafVals(_)
RECURSIVE LeafValsFrom(_, _)

\* The leaves of a ScalarizedVal, in order.
LeafVals(val) ==
    IF val.flavor = "none" THEN <<>>
    ELSE IF val.flavor = "tuple" THEN LeafValsFrom(val.elements, 1)
    ELSE <<val>>

LeafValsFrom(elements, i) ==
    IF i > Len(elements) THEN <<>>
    ELSE LeafVals(elements[i].val) \o LeafValsFrom(elements, i + 1)

\* The ScalarizedVal the call log[c[1]] returned for leaf c[2].
LeafValOf(c) == LeafVals(log[c[1]].val)[c[2]]

\* The global of leaf c is an ordinary varying: a layout decoration, the
\* declared type, no import and no outer-array decoration, no adapter.
IsOrdinaryVarying(c) ==
    /\ Len(GlobalOf(c[1], c[2]).layout) = 1
    /\ GlobalOf(c[1], c[2]).type =
          OrdinaryGlobalType(LeavesOf(log[c[1]])[c[2]], log[c[1]].kind)
    /\ GlobalOf(c[1], c[2]).import = <<>>
    /\ GlobalOf(c[1], c[2]).outerArray = <<>>
    /\ Len(LeafVals(log[c[1]].val)) = Len(LeavesOf(log[c[1]]))
    /\ LeafValOf(c).flavor \in {"value", "address"}
    /\ LeafValOf(c).irValue = GlobalOf(c[1], c[2]).id

UnknownLeaves == {c \in LoggedLeaves : IsUnknownSemantic(SemanticOf(c))}

\* C7: a leaf whose semantic is not empty and matches no table entry gets
\* the unknown-system-value-semantic diagnostic, at its declaration and
\* once, and an ordinary varying global; the pass does not abort on it, and
\* when it has returned the parameters are removed and the type is
\* () -> void.
UnknownSemantic ==
    /\ \A c \in UnknownLeaves :
          /\ IsOrdinaryVarying(c)
          /\ \E d \in 1..Len(diags) :
                diags[d] = [loc |-> LeavesOf(log[c[1]])[c[2]].decl.varDecl,
                            code |-> "unknownSystemValueSemantic",
                            arg |-> SemanticOf(c)]
    /\ Len(diags) = Cardinality(UnknownLeaves)
    /\ UnknownLeaves # {}
       => /\ pc # "aborted"
          /\ pc = "idle" => /\ target \in completed
                            /\ funcs[target].params = <<>>
                            /\ funcs[target].type = FuncType(<<>>, VoidType)

\* The pass has returned on an entry point with an output of an unknown
\* semantic.
UnknownSemanticWitness ==
    /\ 1 \in completed
    /\ pc = "idle"
    /\ \E c \in UnknownLeaves :
          /\ SemanticOf(c) = Capitalized(sv_bogus)
          /\ log[c[1]].kind = "VaryingOutput"
    /\ Len(diags) = 1

PlainLeaves ==
    {c \in LoggedLeaves : SemanticOf(c) = <<>> \/ SameName(SemanticOf(c), sv_target)}

\* C8: a leaf with an empty semantic or with SV_Target, in any letter case,
\* gets an ordinary varying global, and as long as every leaf resolved is
\* such a leaf there is no diagnostic and no extension or version
\* requirement.
OrdinaryVarying ==
    /\ \A c \in PlainLeaves : IsOrdinaryVarying(c)
    /\ PlainLeaves = LoggedLeaves => diags = <<>> /\ exts = {} /\ vers = {}

\* The pass has returned on a fragment entry point whose result is
\* SV_TARGET.
OrdinaryVaryingWitness ==
    /\ 1 \in completed
    /\ funcs[1].stage = "Fragment"
    /\ \E c \in PlainLeaves :
          /\ SemanticOf(c) = AllUpper(sv_target)
          /\ log[c[1]].kind = "VaryingOutput"
          /\ GlobalOf(c[1], c[2]).layout # <<>>

IsLeafType(type) == type.k \in {"basic", "vector", "matrix"}

\* The request of a logged call is an array of a struct of leaves.
IsArrayOfStruct(entry) ==
    /\ entry.type.k = "array"
    /\ entry.type.elem.k = "struct"
    /\ \A j \in 1..Len(entry.type.elem.fields) : IsLeafType(entry.type.elem.fields[j].type)

\* The value type of a global: the pointee of an output's Out<...>.
ValueTypeOf(g, kind) == IF kind = "VaryingOutput" THEN Pointee(g.type) ELSE g.type

\* The global a leaf ScalarizedVal is bound to.
BoundGlobal(val) == IF val.flavor = "typeAdapter" THEN val.val.irValue ELSE val.irValue

\* The element type of the global array of a field: the field's type, or
\* the built-in's type when the field is adapted to one.
FieldGlobalType(field, val) ==
    IF val.flavor = "typeAdapter" THEN val.actualType ELSE field.type

\* C9: for a request of type S[N], S a struct of leaves, the materializer
\* creates one global per field of S, the global of field f being an array
\* of N of f's type (in Out<...> for an output), and no global of type
\* S[N]; it returns a tuple of logical type S[N] with one element per
\* field, in order, under the field's key and bound to the field's global.
SOAArrayDistribution ==
    \A i \in 1..Len(log) :
        IsArrayOfStruct(log[i])
        => /\ log[i].val.flavor = "tuple"
           /\ log[i].val.type = log[i].type
           /\ Len(log[i].val.elements) = Len(log[i].type.elem.fields)
           /\ log[i].last - log[i].first + 1 = Len(log[i].type.elem.fields)
           /\ \A j \in 1..Len(log[i].type.elem.fields) :
                 /\ log[i].val.elements[j].key = log[i].type.elem.fields[j].key
                 /\ log[i].val.elements[j].val.flavor \in {"value", "address", "typeAdapter"}
                 /\ BoundGlobal(log[i].val.elements[j].val) = GlobalOf(i, j).id
                 /\ ValueTypeOf(GlobalOf(i, j), log[i].kind) =
                       ArrayType(FieldGlobalType(log[i].type.elem.fields[j],
                                                 log[i].val.elements[j].val),
                                 log[i].type.count)
                 /\ log[i].kind = "VaryingOutput" => IsOutTypeBase(GlobalOf(i, j).type)
                 /\ ValueTypeOf(GlobalOf(i, j), log[i].kind) # log[i].type

\* The pass has returned on an entry point with an input Foo[2]: two
\* globals, float[2] and float2[2].
SOAArrayDistributionWitness ==
    /\ 1 \in completed
    /\ \E i \in 1..Len(log) :
          /\ IsArrayOfStruct(log[i])
          /\ log[i].type.count = 2
          /\ log[i].kind = "VaryingInput"
          /\ GlobalOf(i, 1).type = ArrayType(TFloat, 2)
          /\ GlobalOf(i, 2).type = ArrayType(Float2, 2)

\* The type column of the mapping table, for the rows that fix a type.
BuiltinTypeRows ==
    { <<sv_position, Float4>>, <<sv_clipdistance, TFloat>>, <<sv_culldistance, TFloat>>,
      <<sv_coverage, TInt>>, <<sv_depth, TFloat>>, <<sv_depthgreaterequal, TFloat>>,
      <<sv_depthlessequal, TFloat>>, <<sv_dispatchthreadid, UInt3>>,
      <<sv_domainlocation, Float3>>, <<sv_groupid, UInt3>>, <<sv_groupindex, TUInt>>,
      <<sv_groupthreadid, UInt3>>, <<sv_gsinstanceid, TInt>>,
      <<sv_outputcontrolpointid, TInt>>, <<sv_instanceid, TInt>>, <<sv_isfrontface, TBool>>,
      <<sv_pointsize, TFloat>>, <<sv_primitiveid, TInt>>,
      <<sv_rendertargetarrayindex, TInt>>, <<sv_sampleindex, TInt>>,
      <<sv_stencilref, TInt>>, <<sv_tessfactor, ArrayType(TFloat, 4)>>,
      <<sv_vertexid, TInt>>, <<sv_viewportarrayindex, TInt>> }

\* The types the table requires for leaf c that differ from its declared
\* type (none, or one).
DifferingTypes(c) ==
    {row[2] : row \in {r \in BuiltinTypeRows :
                          /\ SameName(SemanticOf(c), r[1])
                          /\ r[2] # LeavesOf(log[c[1]])[c[2]].type}}

\* Every instruction of every function body.
Insts ==
    UNION {UNION {{funcs[e].blocks[b][k] : k \in 1..Len(funcs[e].blocks[b])} :
                    b \in 1..Len(funcs[e].blocks)} : e \in 1..Len(funcs)}

\* A conversion: a constructor of a non-struct type with one operand.
IsConversion(inst) ==
    /\ inst.op = "construct"
    /\ Len(inst.args) = 1
    /\ ty[inst.id].k # "struct"

Conversions == {inst \in Insts : IsConversion(inst)}

\* The instructions that read the global of leaf c, and the stores to it.
ReadsOf(c) ==
    {inst \in Insts : \E a \in 1..Len(inst.args) : inst.args[a] = GlobalOf(c[1], c[2]).id}

StoresTo(c) == {inst \in Insts : inst.op = "store" /\ inst.args[1] = GlobalOf(c[1], c[2]).id}

\* The conversions whose result a store of the set writes.
SourcesOf(stores) == {k \in Conversions : \E s \in stores : s.args[2] = k.id}

EmitVertexCallees == {EmitVertexFunc, EmitVertexGeneric, EmitVertexSpecialized}

IsAppend(inst) == inst.op = "call" /\ inst.args[1] \in EmitVertexCallees

\* The ids of the instructions of the body of function e before the pass.
OriginalIds(e) ==
    UNION {{orig[e].blocks[b][k].id : k \in 1..Len(orig[e].blocks[b])} :
             b \in 1..Len(orig[e].blocks)}

\* The positions of the instructions of block b of function e that the
\* pass put right before position p: the run of new instructions that ends
\* at p - 1.
RunBefore(e, b, p) ==
    {q \in 1..(p - 1) : \A r \in q..(p - 1) : funcs[e].blocks[b][r].id \notin OriginalIds(e)}

IsInst(id) == \E inst \in Insts : inst.id = id

InstOf(id) == CHOOSE inst \in Insts : inst.id = id

RECURSIVE RootOf(_)

\* The value that a value is extracted or converted from.
RootOf(id) ==
    IF IsInst(id) /\ (InstOf(id).op = "fieldExtract" \/ IsConversion(InstOf(id)))
    THEN RootOf(InstOf(id).args[1])
    ELSE id

\* The calls of the materializer for the geometry streams of function e.
StreamRequests(e) == {i \in 1..Len(log) : log[i].func = e /\ log[i].type.k = "stream"}

\* The stream parameters of function e before the pass.
StreamParams(e) ==
    {j \in 1..Len(orig[e].params) :
        IsOutTypeBase(orig[e].params[j].type) /\ orig[e].params[j].type.value.k = "stream"}

\* C11: in the body of an entry point, every call that appends to a stream
\* (its callee is, or unwraps to, the glsl EmitVertex() function) has right
\* before it, for every stream request made so far and every leaf of the
\* payload type, exactly one new store to the leaf's output global of a
\* value taken from the call's operand 2, the instruction before the call
\* being such a store; the globals of a stream are stored to nowhere else;
\* and once the pass has returned no instruction uses a stream parameter:
\* where one was used there is an undefined value of the parameter's type,
\* of the entry block.
StreamAppend ==
    \A e \in 1..Len(funcs) :
        /\ \A b \in 1..Len(funcs[e].blocks) :
              \A p \in 1..Len(funcs[e].blocks[b]) :
                  /\ IsAppend(funcs[e].blocks[b][p])
                     => \A i \in StreamRequests(e) :
                           /\ \A j \in 1..Len(LeavesOf(log[i])) :
                                 Cardinality(
                                   {q \in RunBefore(e, b, p) :
                                      /\ funcs[e].blocks[b][q].op = "store"
                                      /\ funcs[e].blocks[b][q].args[1] = GlobalOf(i, j).id
                                      /\ RootOf(funcs[e].blocks[b][q].args[2])
                                            = funcs[e].blocks[b][p].args[3]}) = 1
                           /\ p - 1 \in RunBefore(e, b, p)
                           /\ funcs[e].blocks[b][p - 1].op = "store"
                  /\ (/\ funcs[e].blocks[b][p].op = "store"
                      /\ \E i \in StreamRequests(e) :
                            \E j \in 1..Len(LeavesOf(log[i])) :
                                funcs[e].blocks[b][p].args[1] = GlobalOf(i, j).id)
                     => \E c \in (p + 1)..Len(funcs[e].blocks[b]) :
                           /\ IsAppend(funcs[e].blocks[b][c])
                           /\ p \in RunBefore(e, b, c)
                           /\ RootOf(funcs[e].blocks[b][p].args[2])
                                 = funcs[e].blocks[b][c].args[3]
        /\ e \in completed
           => \A j \in StreamParams(e) :
                 /\ \A inst \in Insts :
                       \A a \in 1..Len(inst.args) : inst.args[a] # orig[e].params[j].id
                 /\ \A b \in 1..Len(orig[e].blocks) :
                       \A k \in 1..Len(orig[e].blocks[b]) :
                           \A a \in 1..Len(orig[e].blocks[b][k].args) :
                               orig[e].blocks[b][k].args[a] = orig[e].params[j].id
                               => /\ IsInst(orig[e].blocks[b][k].id)
                                  /\ IsInst(InstOf(orig[e].blocks[b][k].id).args[a])
                                  /\ InstOf(InstOf(orig[e].blocks[b][k].id).args[a]).op
                                        = "undefined"
                                  /\ ty[InstOf(orig[e].blocks[b][k].id).args[a]]
                                        = orig[e].params[j].type
                                  /\ IndexOfInst(funcs[e].blocks[1],
                                                 InstOf(orig[e].blocks[b][k].id).args[a]) # 0

\* The pass has returned on a geometry entry point whose stream of Vert is
\* appended to through the specialized generic: a store to each of the two
\* globals right before the call.
StreamAppendWitness ==
    /\ 1 \in completed
    /\ funcs[1].stage = "Geometry"
    /\ \E i \in StreamRequests(1) :
          /\ Len(LeavesOf(log[i])) = 2
          /\ \E p \in 3..Len(funcs[1].blocks[1]) :
                /\ funcs[1].blocks[1][p].op = "call"
                /\ funcs[1].blocks[1][p].args[1] = EmitVertexSpecialized
                /\ funcs[1].blocks[1][p - 1].op = "store"
                /\ funcs[1].blocks[1][p - 1].args[1] = GlobalOf(i, 2).id


\* The ordinary out and inout parameters of function e before the pass.
OutParams(e) ==
    IF orig[e].stage \in RayTracingStages THEN {}
    ELSE {j \in 1..Len(orig[e].params) :
            IsOutTypeBase(orig[e].params[j].type) /\ orig[e].params[j].type.value.k # "stream"}

\* The operands of user code that were parameter j of function e:
\* <<instruction, operand>>.
UsesOf(e, j) ==
    {u \in OriginalIds(e) \X (1..3) :
        \E b \in 1..Len(orig[e].blocks) : \E k \in 1..Len(orig[e].blocks[b]) :
            /\ orig[e].blocks[b][k].id = u[1]
            /\ u[2] <= Len(orig[e].blocks[b][k].args)
            /\ orig[e].blocks[b][k].args[u[2]] = orig[e].params[j].id}

\* What user code has now where it had parameter j of function e.
ReplacementsOf(e, j) == {InstOf(u[1]).args[u[2]] : u \in UsesOf(e, j)}

\* The calls of the materializer for parameter j of function e, by kind.
ParamRequests(e, j, kind) ==
    {i \in 1..Len(log) :
        log[i].func = e /\ log[i].layout = orig[e].params[j].layout /\ log[i].kind = kind}

RECURSIVE AddressRoot(_)

\* The variable that an address of a field or of an element is an address
\* into.
AddressRoot(id) ==
    IF IsInst(id) /\ InstOf(id).op \in {"fieldAddress", "elementAddress"}
    THEN AddressRoot(InstOf(id).args[1])
    ELSE id

Unconverted(id) == IF IsInst(id) /\ IsConversion(InstOf(id)) THEN InstOf(id).args[1] ELSE id

\* Value id is, up to a conversion, a load from variable var that is among
\* the positions run of block.
IsLoadedIn(id, var, block, run) ==
    /\ IsInst(Unconverted(id))
    /\ InstOf(Unconverted(id)).op = "load"
    /\ AddressRoot(InstOf(Unconverted(id)).args[1]) = var
    /\ IndexOfInst(block, Unconverted(id)) \in run

\* The stores of the positions run of block to global g of a value loaded
\* there from variable var.
WriteBacks(block, run, g, var) ==
    {q \in run : /\ block[q].op = "store"
                 /\ block[q].args[1] = g
                 /\ IsLoadedIn(block[q].args[2], var, block, run)}

\* C12: once the pass has returned on an entry point of a stage that is not
\* a ray-tracing stage, for every out or inout parameter that is not a
\* stream there is one local variable in the parameter's place and one
\* request for output globals, and every block that ends in a return has,
\* in the run of new instructions right before its terminator, exactly one
\* store to each of these globals, of a value loaded from the local
\* variable in that run.
WriteBackAtEveryReturn ==
    \A e \in completed :
        \A j \in OutParams(e) :
            /\ Cardinality(ReplacementsOf(e, j)) = 1
            /\ Cardinality(ParamRequests(e, j, "VaryingOutput")) = 1
            /\ \A v \in ReplacementsOf(e, j) :
                  /\ IsInst(v)
                  /\ InstOf(v).op = "var"
                  /\ \A i \in ParamRequests(e, j, "VaryingOutput") :
                        \A b \in ReturningBlocks(orig[e]) :
                            \A l \in 1..Len(LeavesOf(log[i])) :
                                Cardinality(
                                  WriteBacks(funcs[e].blocks[b],
                                             RunBefore(e, b, Len(funcs[e].blocks[b])),
                                             GlobalOf(i, l).id, v)) = 1

\* The pass has returned on a vertex entry point with two returning blocks
\* and an inout parameter of two leaves: four stores of write-back.
WriteBackAtEveryReturnWitness ==
    /\ 1 \in completed
    /\ Cardinality(ReturningBlocks(orig[1])) = 2
    /\ \E j \in OutParams(1) :
          /\ orig[1].params[j].type.op = "InOut"
          /\ \E i \in ParamRequests(1, j, "VaryingOutput") :
                /\ Len(LeavesOf(log[i])) = 2
                /\ \A b \in ReturningBlocks(orig[1]) :
                      \E q \in 1..Len(funcs[1].blocks[b]) :
                          /\ funcs[1].blocks[b][q].op = "store"
                          /\ funcs[1].blocks[b][q].args[1] = GlobalOf(i, 2).id


\* The positions of the entry block of function e that are before every
\* instruction user code has there.
TopOf(e) ==
    {q \in 1..Len(funcs[e].blocks[1]) :
        \A k \in 1..q : funcs[e].blocks[1][k].id \notin OriginalIds(e)}

\* The stores of the positions run of block into variable var of the value
\* of global g, as it is or converted there.
Initializations(block, run, var, g) ==
    {q \in run : /\ block[q].op = "store"
                 /\ AddressRoot(block[q].args[1]) = var
                 /\ Unconverted(block[q].args[2]) = g
                 /\ block[q].args[2] # g => IndexOfInst(block, block[q].args[2]) \in run}

\* The new instructions of function e that store into variable var.
NewStoresInto(e, var) ==
    {inst \in Insts : /\ inst.id \notin OriginalIds(e)
                      /\ inst.op = "store"
                      /\ AddressRoot(inst.args[1]) = var}

\* C13: once the pass has returned on an entry point, the local variable
\* that took the place of an inout parameter is declared and, for each
\* leaf of the one request for input globals, stored into exactly once
\* with the value of the leaf's global, all of it in the entry block
\* before every instruction of user code, and nothing else that is new
\* stores into it; for a plain out parameter there is no request for input
\* globals and no new instruction stores into its local variable.
InOutInitialization ==
    \A e \in completed :
        \A j \in OutParams(e) :
            \A v \in ReplacementsOf(e, j) :
                /\ IndexOfInst(funcs[e].blocks[1], v) \in TopOf(e)
                /\ IF orig[e].params[j].type.op = "InOut"
                   THEN /\ Cardinality(ParamRequests(e, j, "VaryingInput")) = 1
                        /\ \A i \in ParamRequests(e, j, "VaryingInput") :
                              /\ \A l \in 1..Len(LeavesOf(log[i])) :
                                    Cardinality(Initializations(funcs[e].blocks[1], TopOf(e), v,
                                                                GlobalOf(i, l).id)) = 1
                              /\ Cardinality(NewStoresInto(e, v)) = Len(LeavesOf(log[i]))
                   ELSE /\ ParamRequests(e, j, "VaryingInput") = {}
                        /\ NewStoresInto(e, v) = {}

\* The pass has returned on a geometry entry point whose first parameter is
\* a stream and whose second is an inout parameter of two leaves, both
\* stored into the local variable.
InOutInitializationWitness ==
    /\ 1 \in completed
    /\ 1 \in StreamParams(1)
    /\ 2 \in OutParams(1)
    /\ orig[1].params[2].type.op = "InOut"
    /\ \E v \in ReplacementsOf(1, 2) : Cardinality(NewStoresInto(1, v)) = 2


RECURSIVE LeafCount(_)
RECURSIVE LeafCountOfFields(_, _)

\* The number of varying leaves of a type.
LeafCount(type) ==
    IF type.k = "void" THEN 0
    ELSE IF type.k \in {"array", "stream"} THEN LeafCount(type.elem)
    ELSE IF type.k = "struct" THEN LeafCountOfFields(type.fields, 1)
    ELSE 1

LeafCountOfFields(fields, i) ==
    IF i > Len(fields) THEN 0
    ELSE LeafCount(fields[i].type) + LeafCountOfFields(fields, i + 1)

\* The number of globals of a kind that the direction of parameter p asks
\* for.
ExpectedGlobals(p, kind) ==
    IF IsOutTypeBase(p.type)
    THEN IF kind = "VaryingOutput" \/ p.type.op = "InOut" THEN LeafCount(p.type.value) ELSE 0
    ELSE IF kind = "VaryingInput" THEN LeafCount(p.type) ELSE 0

ExpectedLocals(p) == IF IsOutTypeBase(p.type) /\ p.type.value.k # "stream" THEN 1 ELSE 0

RECURSIVE TotalGlobals(_, _)
RECURSIVE TotalLocals(_, _)

TotalGlobals(params, j) ==
    IF j > Len(params) THEN 0
    ELSE ExpectedGlobals(params[j], "VaryingInput") + ExpectedGlobals(params[j], "VaryingOutput")
         + TotalGlobals(params, j + 1)

TotalLocals(params, j) ==
    IF j > Len(params) THEN 0 ELSE ExpectedLocals(params[j]) + TotalLocals(params, j + 1)

\* The globals that the calls of the materializer for parameter j of
\* function e created, by kind.
GlobalsOfParam(e, j, kind) ==
    UNION {log[i].first..log[i].last : i \in ParamRequests(e, j, kind)}

\* C14: once the pass has returned on an entry point of a stage that is not
\* a ray-tracing stage, a parameter with k varying leaves has made k input
\* globals if it is in or inout and none if it is out, k output globals if
\* it is out or inout and none if it is in, each global with one layout of
\* one resource entry, of its kind; the function has one local variable per
\* out or inout parameter that is not a stream, in that parameter's place,
\* and none in the place of an in parameter; and there are no globals but
\* these and those of the result.
GlobalsPerDirection ==
    \A e \in completed :
        orig[e].stage \notin RayTracingStages
        => /\ \A j \in 1..Len(orig[e].params) :
                 /\ \A kind \in {"VaryingInput", "VaryingOutput"} :
                       /\ Cardinality(GlobalsOfParam(e, j, kind))
                             = ExpectedGlobals(orig[e].params[j], kind)
                       /\ \A g \in GlobalsOfParam(e, j, kind) :
                             /\ Len(globals[g].layout) = 1
                             /\ Len(globals[g].layout[1].res) = 1
                             /\ globals[g].layout[1].res[1].kind = kind
                 /\ \A v \in ReplacementsOf(e, j) :
                       (IsInst(v) /\ InstOf(v).op = "var")
                       <=> ExpectedLocals(orig[e].params[j]) = 1
           /\ Cardinality({inst \in Insts : inst.op = "var"}) = TotalLocals(orig[e].params, 1)
           /\ Len(globals) = TotalGlobals(orig[e].params, 1) + LeafCount(orig[e].type.result)

\* The pass has returned on a vertex entry point with an in parameter and
\* an inout parameter of two leaves: three input globals, two output
\* globals and one local variable.
GlobalsPerDirectionWitness ==
    /\ 1 \in completed
    /\ orig[1].stage = "Vertex"
    /\ \E j \in 1..Len(orig[1].params) :
          /\ orig[1].params[j].type.k = "ptr"
          /\ orig[1].params[j].type.op = "InOut"
          /\ Cardinality(GlobalsOfParam(1, j, "VaryingInput")) = 2
          /\ Cardinality(GlobalsOfParam(1, j, "VaryingOutput")) = 2
    /\ \E j \in 1..Len(orig[1].params) :
          /\ ~IsOutTypeBase(orig[1].params[j].type)
          /\ Cardinality(GlobalsOfParam(1, j, "VaryingInput")) = 1
    /\ Len(globals) = 5
    /\ Cardinality({inst \in Insts : inst.op = "var"}) = 1


\* The ordinary in parameters of function e before the pass.
InParams(e) ==
    IF orig[e].stage \in RayTracingStages THEN {}
    ELSE {j \in 1..Len(orig[e].params) : ~IsOutTypeBase(orig[e].params[j].type)}

RECURSIVE OperandClosure(_)

\* The instructions that make value id: itself and what its operands are
\* made of.
OperandClosure(id) ==
    IF ~IsInst(id) THEN {}
    ELSE {id} \cup UNION {OperandClosure(InstOf(id).args[a]) :
                            a \in 1..Len(InstOf(id).args)}

\* The ids of the globals that call log[i] of the materializer created.
GlobalIds(i) == {globals[g].id : g \in log[i].first..log[i].last}

\* The new instructions of function e with a global of call log[i] for an
\* operand.
ReadersOf(e, i) ==
    {inst \in Insts : /\ inst.id \notin OriginalIds(e)
                      /\ \E a \in 1..Len(inst.args) : inst.args[a] \in GlobalIds(i)}

SameWork(x, y) == x.op = y.op /\ x.args = y.args /\ x.key = y.key /\ x.idx = y.idx

\* C15: once the pass has returned on an entry point of a stage that is not
\* a ray-tracing stage, every use that user code had of an in parameter has
\* one and the same value in its place, made from the globals of the one
\* request for input globals; the value is the global itself when nothing
\* is to be rebuilt and else an instruction whose making is all in the
\* entry block before every instruction of user code; every new
\* instruction that reads a global of the request is part of that making,
\* and no two instructions of it do the same work.
SingleMaterialization ==
    \A e \in completed :
        \A j \in InParams(e) :
            /\ Cardinality(ReplacementsOf(e, j)) = 1
            /\ Cardinality(ParamRequests(e, j, "VaryingInput")) = 1
            /\ \A inst \in Insts :
                  \A a \in 1..Len(inst.args) : inst.args[a] # orig[e].params[j].id
            /\ \A v \in ReplacementsOf(e, j) :
                  \A i \in ParamRequests(e, j, "VaryingInput") :
                      /\ v \in GlobalIds(i) \/ (IsInst(v) /\ v \notin OriginalIds(e))
                      /\ \A x \in OperandClosure(v) :
                            /\ IndexOfInst(funcs[e].blocks[1], x) \in TopOf(e)
                            /\ \A y \in OperandClosure(v) :
                                  SameWork(InstOf(x), InstOf(y)) => x = y
                      /\ \A inst \in ReadersOf(e, i) : inst.id \in OperandClosure(v)
                      /\ v \notin GlobalIds(i)
                         => \A g \in GlobalIds(i) :
                               \E inst \in ReadersOf(e, i) :
                                   \E a \in 1..Len(inst.args) : inst.args[a] = g

\* The pass has returned on a vertex entry point whose body used an in
\* parameter of a struct type twice: both uses have the one constructed
\* value.
SingleMaterializationWitness ==
    /\ 1 \in completed
    /\ \E j \in InParams(1) :
          /\ orig[1].params[j].type.k = "struct"
          /\ Cardinality(UsesOf(1, j)) = 2
          /\ \E v \in ReplacementsOf(1, j) :
                /\ IsInst(v)
                /\ Cardinality(OperandClosure(v)) >= 1
                /\ Cardinality({inst \in Insts : \E a \in 1..Len(inst.args) : inst.args[a] = v}) = 2


\* The parameters of function e before the pass that the ray-tracing case
\* takes: those of a ray-tracing stage that are not geometry streams.
LiftedParams(e) ==
    IF orig[e].stage \notin RayTracingStages THEN {}
    ELSE {j \in 1..Len(orig[e].params) : j \notin StreamParams(e)}

\* The globals that carry the layout of parameter j of function e as it
\* was.
LiftsOf(e, j) ==
    {g \in 1..Len(globals) : globals[g].layout = << orig[e].params[j].layout >>}

\* The globals that the calls of the materializer created.
MaterializedGlobals == UNION {log[i].first..log[i].last : i \in 1..Len(log)}

\* C16: once the pass has returned on an entry point of a ray-tracing
\* stage, every parameter that is not a geometry stream has exactly one
\* global with the parameter's layout, of the parameter's type as it was
\* (pointer wrapper and struct kept), which the materializer did not make;
\* every use of the parameter is a use of that global; the materializer
\* was not called for the parameter; no new instruction has the global for
\* an operand and the function has no local variable; the entry point
\* depends on the global exactly once, used or not; and the globals and the
\* dependencies are no more than these.
RayTracingLift ==
    \A e \in completed :
        orig[e].stage \in RayTracingStages
        => /\ \A j \in LiftedParams(e) :
                 /\ Cardinality(LiftsOf(e, j)) = 1
                 /\ ParamRequests(e, j, "VaryingInput") = {}
                 /\ ParamRequests(e, j, "VaryingOutput") = {}
                 /\ \A g \in LiftsOf(e, j) :
                       /\ globals[g].type = orig[e].params[j].type
                       /\ ty[globals[g].id] = orig[e].params[j].type
                       /\ g \notin MaterializedGlobals
                       /\ ReplacementsOf(e, j) \subseteq {globals[g].id}
                       /\ \A inst \in Insts :
                             \A a \in 1..Len(inst.args) :
                                 /\ inst.args[a] # orig[e].params[j].id
                                 /\ inst.args[a] = globals[g].id
                                    => <<inst.id, a>> \in UsesOf(e, j)
                       /\ Cardinality({d \in 1..Len(funcs[e].deps) :
                                         funcs[e].deps[d] = globals[g].id}) = 1
           /\ \A inst \in Insts : inst.op # "var"
           /\ Len(funcs[e].deps) = Cardinality(LiftedParams(e))
           /\ Len(globals) = Cardinality(LiftedParams(e)) + Cardinality(MaterializedGlobals)

\* The pass has returned on a closest-hit entry point with an inout
\* parameter of a struct type that the body does not use: one global of the
\* inout type, which the entry point depends on.
RayTracingLiftWitness ==
    /\ 1 \in completed
    /\ orig[1].stage = "ClosestHit"
    /\ \E j \in LiftedParams(1) :
          /\ orig[1].params[j].type.k = "ptr"
          /\ orig[1].params[j].type.op = "InOut"
          /\ orig[1].params[j].type.value.k = "struct"
          /\ UsesOf(1, j) = {}
          /\ \E g \in LiftsOf(1, j) : funcs[1].deps = << globals[g].id >>


\* The number of values the module had before any pass.
OriginalTop ==
    CHOOSE n \in 0..Len(ty) :
        /\ \A e \in 1..Len(orig) :
              /\ \A j \in 1..Len(orig[e].params) : orig[e].params[j].id <= n
              /\ \A id \in OriginalIds(e) : id <= n
        /\ n = Len(ModuleInsts)
           \/ \E e \in 1..Len(orig) :
                 \/ n \in OriginalIds(e)
                 \/ \E j \in 1..Len(orig[e].params) : orig[e].params[j].id = n

\* Function e alone in the module as it was, with a context of its own.
AloneWorld(e) ==
    [func |-> e, stage |-> orig[e].stage, globals |-> <<>>, blocks |-> orig[e].blocks,
     ty |-> SubSeq(ty, 1, OriginalTop), ip |-> InsertIntoFunc, exts |-> {}, vers |-> {},
     diags |-> <<>>, err |-> "", deps |-> orig[e].deps, log |-> <<>>]

RECURSIVE AloneParams(_, _, _)

AloneParams(w, params, j) ==
    IF w.err # "" \/ w.blocks = <<>> \/ j > Len(params) THEN w
    ELSE AloneParams(
            IF params[j].layout.k # "var" THEN Fail(w, "assert: paramLayout")
            ELSE legalizeEntryPointParameterForGLSL(w, params[j], params[j].layout),
            params, j + 1)

\* The world after the pass on function e alone.
Alone(e) ==
    IF orig[e].type.result.k = "void" /\ getParamCount(orig[e]) = 0 THEN AloneWorld(e)
    ELSE AloneParams(
            AtParameters(IF orig[e].type.result.k = "void" THEN AloneWorld(e)
                         ELSE legalizeResult(AloneWorld(e), orig[e].type.result,
                                             orig[e].resultLayout)),
            orig[e].params, 1)

\* A value of a lone pass as the value it is d values later.
Later(id, d) == IF id > OriginalTop THEN id + d ELSE id

LaterInst(inst, d) ==
    [inst EXCEPT !.id = Later(inst.id, d),
                 !.args = [a \in 1..Len(inst.args) |-> Later(inst.args[a], d)]]

LaterBlocks(blocks, d) ==
    [b \in 1..Len(blocks) |-> [k \in 1..Len(blocks[b]) |-> LaterInst(blocks[b][k], d)]]

\* Function e and what the pass made for it are what the world alone has,
\* d values later and after k other globals.
SameAsAlone(e, alone, d, k) ==
    /\ alone.err = ""
    /\ funcs[e].blocks = LaterBlocks(alone.blocks, d)
    /\ funcs[e].deps = [i \in 1..Len(alone.deps) |-> Later(alone.deps[i], d)]
    /\ funcs[e].type = FuncType(<<>>, VoidType)
    /\ funcs[e].params = <<>>
    /\ k + Len(alone.globals) <= Len(globals)
    /\ \A g \in 1..Len(alone.globals) :
          globals[k + g] = [alone.globals[g] EXCEPT !.id = Later(alone.globals[g].id, d)]
    /\ Len(alone.ty) + d <= Len(ty)
    /\ \A i \in (OriginalTop + 1)..Len(alone.ty) : ty[i + d] = alone.ty[i]

MatchesAlone(e, alone) ==
    \E d \in 0..(Len(ty) - OriginalTop) : \E k \in 0..Len(globals) :
        SameAsAlone(e, alone, d, k)

RECURSIVE AloneGlobals(_)

\* The number of globals the passes on functions 1..e make, each alone.
AloneGlobals(e) == IF e = 0 THEN 0 ELSE Len(Alone(e).globals) + AloneGlobals(e - 1)

\* C17: in a module of two entry points, whatever the order of the passes,
\* once the pass has returned on an entry point its body, decorations, type
\* and parameters, the globals made for it and the types of the new values
\* are, up to the numbering of the new values, those of the pass on that
\* entry point alone in the module as it was, and remain so; when the pass
\* has returned on both there are no other globals; and a step of the pass
\* on one entry point leaves every other function and the globals that
\* exist as they are.
NoCrossEntryPointState ==
    /\ [](/\ \A e \in completed : MatchesAlone(e, Alone(e))
          /\ completed = 1..Len(funcs) => Len(globals) = AloneGlobals(Len(funcs)))
    /\ [][/\ \A e \in 1..Len(funcs) : e # target' => funcs'[e] = funcs[e]
          /\ Len(globals') >= Len(globals)
          /\ SubSeq(globals', 1, Len(globals)) = globals]_vars

\* The pass has returned on both entry points, the second first, and both
\* have globals of the same request: an in parameter p1 of type Foo.
NoCrossEntryPointStateWitness ==
    /\ Len(funcs) = 2
    /\ completed = {1, 2}
    /\ Len(log) >= 2
    /\ log[1].func = 2
    /\ \E i \in 2..Len(log) :
          /\ log[i].func = 1
          /\ log[i].type = log[1].type
          /\ log[i].layout = log[1].layout
          /\ log[i].kind = log[1].kind
          /\ log[i].stage = log[1].stage
          /\ log[i].first > log[1].last


\* The defects of a function that the pass asserts the absence of.
FuncDefect(f) == ~f.hasLayout \/ f.uses # 0

RECURSIVE LayoutFits(_, _)

\* An array type has an array type layout, a stream type a stream type
\* layout and a struct type a struct type layout, all the way down.
LayoutFits(type, typeLayout) ==
    IF type.k \in {"array", "stream"}
    THEN /\ typeLayout.k = type.k
         /\ LayoutFits(type.elem, typeLayout.elementTypeLayout)
    ELSE IF type.k = "struct"
    THEN /\ typeLayout.k = "struct"
         /\ \A i \in 1..Len(type.fields) :
               LayoutFits(type.fields[i].type, typeLayout.fields[i].typeLayout)
    ELSE TRUE

ResultDefect(f) ==
    f.type.result.k # "void" /\ ~LayoutFits(f.type.result, f.resultLayout.typeLayout)

ValueTypeOfParam(p) == IF IsOutTypeBase(p.type) THEN p.type.value ELSE p.type

MisfitParam(p) == p.layout.k = "var" /\ ~LayoutFits(ValueTypeOfParam(p), p.layout.typeLayout)

\* Whether the pass asks the materializer for globals for parameter p of f.
IsMaterialized(f, p) ==
    (IsOutTypeBase(p.type) /\ p.type.value.k = "stream") \/ f.stage \notin RayTracingStages

\* The parameters of f with a defect that the pass comes to look at.
DefectiveParams(f) ==
    {j \in 1..Len(f.params) :
        \/ f.params[j].layout.k # "var"
        \/ IsMaterialized(f, f.params[j]) /\ MisfitParam(f.params[j])}

AssertionFailures ==
    {"assert: layoutDecoration", "assert: !func->firstUse", "assert: paramLayout",
     "assert: arrayLayout", "assert: streamLayout", "assert: structTypeLayout"}

\* C18, as stated: the pass never returns on a function with a use, with
\* no entry-point layout, with a parameter without layout, or with an
\* array, stream or struct type whose type layout is of another kind.
DefectsNeverComplete ==
    \A e \in 1..Len(funcs) :
        (\/ FuncDefect(orig[e])
         \/ ResultDefect(orig[e])
         \/ \E j \in 1..Len(orig[e].params) :
               orig[e].params[j].layout.k # "var" \/ MisfitParam(orig[e].params[j]))
        => e \notin completed

\* C18, amended: the pass never returns on a function with a use, with no
\* entry-point layout, with a parameter without layout, or with a result,
\* a stream parameter or a parameter of a stage that is not a ray-tracing
\* stage whose array, stream or struct type has a type layout of another
\* kind.  Started on a function with a use or without layout it ends at
\* once in an assertion failure and has changed nothing; else it ends in
\* an assertion failure at the result or at the first such parameter and
\* never goes on to the next one.
AssertionsOnDefects ==
    \A e \in 1..Len(funcs) :
        /\ FuncDefect(orig[e]) \/ ResultDefect(orig[e]) \/ DefectiveParams(orig[e]) # {}
           => e \notin completed
        /\ FuncDefect(orig[e]) /\ target = e
           => /\ pc = "aborted"
              /\ err \in {"assert: layoutDecoration", "assert: !func->firstUse"}
              /\ funcs[e] = orig[e]
              /\ globals = <<>>
        /\ ~FuncDefect(orig[e]) /\ ResultDefect(orig[e]) /\ target = e
           => pc = "aborted" /\ err \in AssertionFailures /\ funcs[e] = orig[e]
        /\ \A j \in DefectiveParams(orig[e]) :
              /\ target = e /\ pc = "params" => pp <= j
              /\ target = e /\ pc = "aborted" /\ cur = e /\ pp = j => err \in AssertionFailures

\* The pass has legalized the first parameter and failed the assertion on
\* the array type layout of the second.
AssertionsOnDefectsWitness ==
    /\ pc = "aborted"
    /\ err = "assert: arrayLayout"
    /\ cur = 1
    /\ pp = 2
    /\ 2 \in DefectiveParams(orig[1])
    /\ 1 \notin completed


\* The pairs of flavors that assign has no case for.
IsUnlisted(left, right) ==
    \/ left.flavor \in {"value", "none"}
    \/ left.flavor = "address" /\ right.flavor \in {"none", "typeAdapter"}

StoresIn(blocks) ==
    {inst \in UNION {{blocks[b][k] : k \in 1..Len(blocks[b])} : b \in 1..Len(blocks)} :
        inst.op = "store"}

\* C19: a call of assign with a left side of flavor value or none, or with
\* a left side of flavor address and a right side of flavor none or
\* typeAdapter, ends in the internal error "unimplemented", leaves the body
\* as it was (no store) and ends the compilation; with a left side of
\* flavor address and a right side of flavor value or address it succeeds
\* with exactly one store, to the left side.
AssignUnimplemented ==
    \A i \in 1..Len(log) :
        /\ IsUnlisted(log[i].left, log[i].right)
           => /\ log[i].err = "unimplemented"
              /\ log[i].blocks = orig[1].blocks
              /\ StoresIn(log[i].blocks) = {}
              /\ pc = "aborted"
              /\ err = "unimplemented"
              /\ funcs = orig
        /\ log[i].left.flavor = "address" /\ log[i].right.flavor \in {"value", "address"}
           => /\ log[i].err = ""
              /\ Cardinality(StoresIn(funcs[1].blocks)) = 1
              /\ \A s \in StoresIn(funcs[1].blocks) : s.args[1] = log[i].left.irValue

\* assign was called with an address on the left and a type adapter on the
\* right, and the compilation has ended.
AssignUnimplementedWitness ==
    /\ Len(log) = 1
    /\ log[1].left.flavor = "address"
    /\ log[1].right.flavor = "typeAdapter"
    /\ pc = "aborted"


\* The functions whose result part the pass is through with.
ResultDone == {e \in 1..Len(funcs) : e \in completed \/ (pc = "params" /\ cur = e)}

\* The ids of a block, in order, and those of them that user code had.
IdsOf(block) == [k \in 1..Len(block) |-> block[k].id]

OriginalsOf(e, block) == SelectSeq(IdsOf(block), LAMBDA id : id \in OriginalIds(e))

\* The calls of the materializer for the result of function e.
ResultRequests(e) ==
    {i \in 1..Len(log) : log[i].func = e /\ log[i].layout = orig[e].resultLayout}

\* The positions of block with a store to global g.
StoresOf(block, g) == {q \in 1..Len(block) : block[q].op = "store" /\ block[q].args[1] = g}

\* The positions of block that are after every instruction user code has
\* there and before the last.
TailOf(e, block) ==
    {q \in 1..(Len(block) - 1) : \A k \in q..Len(block) : block[k].id \notin OriginalIds(e)}

\* C20: once the pass is through with the non-void result of a function,
\* the function has its blocks in number and in order; a block that ended
\* in a returnVal of v has all its other instructions of before, in their
\* order, then new instructions only, among them for each leaf of the one
\* request for result globals exactly one store to the leaf's global, of a
\* value taken from v, and it ends in a new returnVoid, its only one; any
\* other block has exactly its instructions of before among those of user
\* code, in their order, and no store to a result global; and no returnVal
\* is left.
ResultRewriting ==
    \A e \in ResultDone :
        orig[e].type.result.k # "void"
        => /\ Len(funcs[e].blocks) = Len(orig[e].blocks)
           /\ Cardinality(ResultRequests(e)) = 1
           /\ \A inst \in Insts : inst.op # "returnVal"
           /\ \A i \in ResultRequests(e) :
                 \A b \in 1..Len(orig[e].blocks) :
                     IF Terminator(orig[e].blocks[b]).op = "returnVal"
                     THEN /\ OriginalsOf(e, funcs[e].blocks[b])
                                = SubSeq(IdsOf(orig[e].blocks[b]), 1, Len(orig[e].blocks[b]) - 1)
                          /\ Terminator(funcs[e].blocks[b]).op = "returnVoid"
                          /\ Terminator(funcs[e].blocks[b]).id \notin OriginalIds(e)
                          /\ Cardinality({q \in 1..Len(funcs[e].blocks[b]) :
                                            funcs[e].blocks[b][q].op = "returnVoid"}) = 1
                          /\ \A l \in 1..Len(LeavesOf(log[i])) :
                                /\ Cardinality(StoresOf(funcs[e].blocks[b], GlobalOf(i, l).id)) = 1
                                /\ \A q \in StoresOf(funcs[e].blocks[b], GlobalOf(i, l).id) :
                                      /\ q \in TailOf(e, funcs[e].blocks[b])
                                      /\ RootOf(funcs[e].blocks[b][q].args[2])
                                            = Terminator(orig[e].blocks[b]).args[1]
                     ELSE /\ OriginalsOf(e, funcs[e].blocks[b]) = IdsOf(orig[e].blocks[b])
                          /\ \A l \in 1..Len(LeavesOf(log[i])) :
                                StoresOf(funcs[e].blocks[b], GlobalOf(i, l).id) = {}

\* The pass has returned on an entry point with a result of two leaves and
\* two returning blocks, the last of which is the instruction of user
\* code, two field extracts and two stores, and the returnVoid.
ResultRewritingWitness ==
    /\ 1 \in completed
    /\ Len(funcs[1].blocks) = 3
    /\ \E i \in ResultRequests(1) :
          /\ Len(LeavesOf(log[i])) = 2
          /\ Len(funcs[1].blocks[3]) = 6
          /\ funcs[1].blocks[3][1].id \in OriginalIds(1)
          /\ funcs[1].blocks[3][5].op = "store"
          /\ funcs[1].blocks[3][5].args[1] = GlobalOf(i, 2).id
          /\ funcs[1].blocks[3][6].op = "returnVoid"


RECURSIVE LeafPaths(_, _, _)
RECURSIVE LeafPathsOfFields(_, _, _, _)

\* For every varying leaf of a type, in declaration order, its path: the
\* var layouts of the struct fields from the root to the leaf, and the
\* number of array and stream wrappers passed on the way.
LeafPaths(type, typeLayout, path) ==
    IF type.k = "void" THEN <<>>
    ELSE IF type.k \in {"array", "stream"}
    THEN LeafPaths(type.elem, typeLayout.elementTypeLayout,
                   [path EXCEPT !.wrappers = @ + 1])
    ELSE IF type.k = "struct" THEN LeafPathsOfFields(type, typeLayout, path, 1)
    ELSE << path >>

LeafPathsOfFields(type, typeLayout, path, i) ==
    IF i > Len(type.fields) THEN <<>>
    ELSE LeafPaths(type.fields[i].type, typeLayout.fields[i].typeLayout,
                   [path EXCEPT !.fields = Append(@, typeLayout.fields[i])])
         \o LeafPathsOfFields(type, typeLayout, path, i + 1)

PathsOf(entry) ==
    LeafPaths(entry.type, entry.layout.typeLayout, [fields |-> <<>>, wrappers |-> 0])

RECURSIVE SumOfIndexes(_, _)

\* The sum of the indexes that the var layouts of a path record for a kind.
SumOfIndexes(fields, kind) ==
    IF fields = <<>> THEN 0
    ELSE OwnIndex(Head(fields), kind) + SumOfIndexes(Tail(fields), kind)

\* C21: the one resource entry of the layout of the global of a leaf has
\* for index the index that the var layout of the parameter or result
\* records for the kind asked for, 0 when it records none, plus the sum of
\* the indexes that the struct fields on the path from the root to the
\* leaf record for the kind, a field that records none adding 0; arrays and
\* streams on the path add nothing.
BindingIndexOfLeaf ==
    \A i \in 1..Len(log) :
        /\ Len(PathsOf(log[i])) = log[i].last - log[i].first + 1
        /\ \A j \in 1..Len(PathsOf(log[i])) :
              /\ Len(GlobalOf(i, j).layout) = 1
              /\ \A r \in 1..Len(GlobalOf(i, j).layout[1].res) :
                    GlobalOf(i, j).layout[1].res[r].index
                       = OwnIndex(log[i].layout, log[i].kind)
                         + SumOfIndexes(PathsOf(log[i])[j].fields, log[i].kind)
              /\ GlobalOf(i, j).layout[1].res # <<>>

\* A second parameter, with an index of its own, whose leaf under a field
\* with an index has the sum of the two; and a leaf reached through an
\* array and a field with an index.
BindingIndexOfLeafWitness ==
    \E i \in 1..Len(log) : \E j \in 1..Len(PathsOf(log[i])) :
        /\ PathsOf(log[i])[j].fields # <<>>
        /\ SumOfIndexes(PathsOf(log[i])[j].fields, log[i].kind) > 0
        /\ \/ OwnIndex(log[i].layout, log[i].kind) > 0
           \/ PathsOf(log[i])[j].wrappers > 0
        /\ GlobalOf(i, j).layout[1].res[1].index
              = OwnIndex(log[i].layout, log[i].kind)
                + SumOfIndexes(PathsOf(log[i])[j].fields, log[i].kind)


\* The ids of the instructions of a body.
IdsOfBlocks(blocks) ==
    UNION {{blocks[b][k].id : k \in 1..Len(blocks[b])} : b \in 1..Len(blocks)}

\* Instruction id of the entry block of blocks is before instruction at
\* there, with no instruction of the user code of function e before it.
AtTopBefore(blocks, e, id, at) ==
    /\ IndexOfInst(blocks[1], id) # 0
    /\ IndexOfInst(blocks[1], id) < IndexOfInst(blocks[1], at)
    /\ \A k \in 1..IndexOfInst(blocks[1], id) : blocks[1][k].id \notin OriginalIds(e)
    /\ ~IsReturn(blocks[1][IndexOfInst(blocks[1], id) + 1])

\* C22: an iteration of the parameter loop on an out or inout parameter
\* that is not a stream leaves the insertion point of the main builder as
\* it was, before an instruction of the entry block; and in an iteration
\* that comes after such a parameter, what the iteration emits to
\* initialize its parameter (for an in parameter everything it emits, for
\* an out or inout parameter the local variable and the stores into it) is
\* in the entry block before the instruction of the insertion point, before
\* every instruction of user code, and not right before a return.
MainInsertionPointKept ==
    [][(pc = "params" /\ pc' = "params" /\ pp' = pp + 1)
       => /\ pp \in OutParams(cur)
             => /\ ip' = ip
                /\ ip.mode = "before" /\ ip.blk = 1
                /\ IndexOfInst(funcs'[cur].blocks[1], ip.inst) # 0
          /\ (\E k \in 1..(pp - 1) : k \in OutParams(cur)) /\ pp \notin StreamParams(cur)
             => \A b \in 1..Len(funcs'[cur].blocks) :
                   \A q \in 1..Len(funcs'[cur].blocks[b]) :
                       (/\ funcs'[cur].blocks[b][q].id \notin IdsOfBlocks(funcs[cur].blocks)
                        /\ \/ pp \notin OutParams(cur)
                           \/ funcs'[cur].blocks[b][q].op = "var"
                           \/ /\ funcs'[cur].blocks[b][q].op = "store"
                              /\ \E v \in IdsOfBlocks(funcs'[cur].blocks) :
                                    /\ v \notin IdsOfBlocks(funcs[cur].blocks)
                                    /\ AddressRoot(funcs'[cur].blocks[b][q].args[1]) = v)
                       => /\ b = 1
                          /\ AtTopBefore(funcs'[cur].blocks, cur,
                                         funcs'[cur].blocks[b][q].id, ip.inst)]_vars

\* After an out parameter and an in parameter whose global is converted:
\* the conversion is in the entry block before the instruction of the
\* insertion point, and the write-back of the out parameter is after it,
\* before the return.
MainInsertionPointKeptWitness ==
    /\ pc = "params"
    /\ pp = 3
    /\ 1 \in OutParams(cur)
    /\ 2 \notin OutParams(cur) \cup StreamParams(cur)
    /\ ip.mode = "before"
    /\ \E q \in 1..Len(funcs[cur].blocks[1]) :
          /\ IsConversion(funcs[cur].blocks[1][q])
          /\ funcs[cur].blocks[1][q].id \notin OriginalIds(cur)
          /\ q < IndexOfInst(funcs[cur].blocks[1], ip.inst)
          /\ q \in TopOf(cur)
    /\ \E b \in 1..Len(funcs[cur].blocks) : \E q \in 1..Len(funcs[cur].blocks[b]) :
          /\ funcs[cur].blocks[b][q].op = "store"
          /\ funcs[cur].blocks[b][q].id \notin OriginalIds(cur)
          /\ IsReturn(funcs[cur].blocks[b][q + 1])


\* The leaves whose ScalarizedVal is a TypeAdapter.
AdaptedLeaves == {c \in LoggedLeaves : LeafValOf(c).flavor = "typeAdapter"}

\* C23: every TypeAdapter that the materializer returns wraps the global of
\* its leaf, a value or an address, never another TypeAdapter; the type of
\* the global (the pointee for an output) is the adapter's actualType; and
\* its pretendType is the type user code has for the value: the declared
\* type of the leaf, under the arrays that the leaf was reached through.
TypeAdapterTypes ==
    \A c \in AdaptedLeaves :
        /\ LeafValOf(c).val.flavor \in {"value", "address"}
        /\ LeafValOf(c).val.irValue = GlobalOf(c[1], c[2]).id
        /\ ValueTypeOf(GlobalOf(c[1], c[2]), log[c[1]].kind) = LeafValOf(c).actualType
        /\ LeafValOf(c).pretendType
              = ArrayOver(LeavesOf(log[c[1]])[c[2]].type, LeavesOf(log[c[1]])[c[2]].counts)


RECURSIVE TuplesOf(_)

\* The tuples of a ScalarizedVal: itself and the tuples of its elements.
TuplesOf(val) ==
    IF val.flavor # "tuple" THEN {}
    ELSE {val} \cup UNION {TuplesOf(val.elements[k].val) : k \in 1..Len(val.elements)}

\* The tuples with an array type among the input globals of the in
\* parameters of function e.
ArrayTuples(e) ==
    UNION {UNION {{t \in TuplesOf(log[i].val) : t.type.k = "array"} :
                    i \in ParamRequests(e, j, "VaryingInput")} : j \in InParams(e)}

\* Value id is a struct of the element type of tuple t, constructed in
\* field order from element ii of the global array of each field.
IsStructOfElements(id, t, ii) ==
    /\ IsInst(id)
    /\ InstOf(id).op = "construct"
    /\ ty[id] = t.type.elem
    /\ t.type.elem.k = "struct"
    /\ Len(InstOf(id).args) = Len(t.type.elem.fields)
    /\ Len(t.elements) = Len(t.type.elem.fields)
    /\ \A f \in 1..Len(t.elements) :
          /\ t.elements[f].val.flavor = "value"
          /\ IsInst(InstOf(id).args[f])
          /\ InstOf(InstOf(id).args[f]).op = "elementExtract"
          /\ InstOf(InstOf(id).args[f]).args = << t.elements[f].val.irValue >>
          /\ InstOf(InstOf(id).args[f]).idx = ii
          /\ ty[InstOf(id).args[f]] = t.type.elem.fields[f].type

\* Instruction m is the array that tuple t stands for.
IsArrayOfTuple(m, t) ==
    /\ m.op = "makeArray"
    /\ ty[m.id] = t.type
    /\ Len(m.args) = t.type.count
    /\ \A ii \in 0..(t.type.count - 1) : IsStructOfElements(m.args[ii + 1], t, ii)

\* C24: once the pass has returned on an entry point, for every tuple of
\* type array<S,N> among the input globals of its in parameters there is a
\* makeArray of that type over exactly N values, value i (from 0) being a
\* struct S constructed in field order from element i of the global array
\* of each field; and the body has no other new makeArray.
TupleOfArray ==
    \A e \in completed :
        /\ \A t \in ArrayTuples(e) :
              \E m \in Insts : m.id \notin OriginalIds(e) /\ IsArrayOfTuple(m, t)
        /\ \A b \in 1..Len(funcs[e].blocks) : \A q \in 1..Len(funcs[e].blocks[b]) :
              (funcs[e].blocks[b][q].op = "makeArray"
               /\ funcs[e].blocks[b][q].id \notin OriginalIds(e))
              => \E t \in ArrayTuples(e) : IsArrayOfTuple(funcs[e].blocks[b][q], t)

\* The pass has returned on an entry point with an in parameter Foo[2]:
\* a makeArray of two structs, the second made of element 1 of each of the
\* two global arrays.
TupleOfArrayWitness ==
    /\ 1 \in completed
    /\ \E t \in ArrayTuples(1) :
          /\ t.type = ArrayType(t.type.elem, 2)
          /\ Len(t.elements) = 2
          /\ \E m \in Insts :
                /\ IsArrayOfTuple(m, t)
                /\ InstOf(InstOf(m.args[2]).args[2]).idx = 1


RECURSIVE TypedAs(_, _, _, _)

\* ScalarizedVal val stands for declared type type reached through arrays
\* of counts (outermost first): a leaf is bound to a global whose type is
\* the leaf's type (the built-in's for an adapted leaf) in an array of the
\* innermost count, in an array of the next, up to the outermost; a struct
\* is a tuple whose type is the struct in the same nest of arrays.
TypedAs(val, type, counts, kind) ==
    IF type.k \in {"array", "stream"}
    THEN TypedAs(val, type.elem,
                 IF type.k = "array" THEN Append(counts, type.count) ELSE counts, kind)
    ELSE IF type.k = "struct"
    THEN /\ val.flavor = "tuple"
         /\ val.type = ArrayOver(type, counts)
         /\ Len(val.elements) = Len(type.fields)
         /\ \A f \in 1..Len(type.fields) :
               TypedAs(val.elements[f].val, type.fields[f].type, counts, kind)
    ELSE /\ val.flavor \in {"value", "address", "typeAdapter"}
         /\ (IF kind = "VaryingOutput" THEN Pointee(ty[BoundGlobal(val)])
             ELSE ty[BoundGlobal(val)])
               = ArrayOver(IF val.flavor = "typeAdapter" THEN val.actualType ELSE type, counts)

RECURSIVE IsNestOfLeaf(_)

\* A nest of one or more arrays over a basic, vector or matrix type.
IsNestOfLeaf(type) ==
    type.k = "array" /\ (IsLeafType(type.elem) \/ IsNestOfLeaf(type.elem))

RECURSIVE IsNestOfStruct(_)

IsNestOfStruct(type) ==
    type.k = "array" /\ (type.elem.k = "struct" \/ IsNestOfStruct(type.elem))

IsAdaptedLeaf(type, layout) ==
    /\ IsLeafType(type)
    /\ layout.k = "var"
    /\ \E row \in BuiltinTypeRows :
          SameName(layout.systemValueSemantic, row[1]) /\ row[2] # type

\* The signature of f is made of leaves, one of them adapted, and the stage
\* is one whose parameters get globals.
IsAdaptedSignature(f) ==
    /\ f.stage \notin RayTracingStages
    /\ f.type.result.k = "void" \/ IsLeafType(f.type.result)
    /\ \A j \in 1..Len(f.params) : IsLeafType(ValueTypeOfParam(f.params[j]))
    /\ \/ IsAdaptedLeaf(f.type.result, f.resultLayout)
       \/ \E j \in 1..Len(f.params) :
             IsAdaptedLeaf(ValueTypeOfParam(f.params[j]), f.params[j].layout)

\* C26: the pass never ends in the internal error "unimplemented" on an
\* entry point whose parameters and result are leaves, adapted ones among
\* them, whatever their directions: in, out, inout or result.
AdaptationInEveryDirection ==
    \A e \in 1..Len(orig) :
        (target = e /\ IsAdaptedSignature(orig[e]))
        => ~(pc = "aborted" /\ err = "unimplemented")


RECURSIVE IsPlainNest(_, _, _)

\* A nest of arrays and structs over leaves without system-value semantic,
\* with the type layout that the type asks for.
IsPlainNest(type, varLayout, typeLayout) ==
    IF type.k = "array"
    THEN typeLayout.k = "array" /\ IsPlainNest(type.elem, varLayout, typeLayout.elementTypeLayout)
    ELSE IF type.k = "struct"
    THEN /\ typeLayout.k = "struct"
         /\ Len(typeLayout.fields) = Len(type.fields)
         /\ \A f \in 1..Len(type.fields) :
               IsPlainNest(type.fields[f].type, typeLayout.fields[f],
                           typeLayout.fields[f].typeLayout)
    ELSE IsLeafType(type) /\ Len(varLayout.systemValueSemantic) = 0

\* Function f of a stage whose parameters get globals has no result and
\* only in parameters, each a nest of arrays and structs over plain leaves.
HasNestedInputs(f) ==
    /\ ~FuncDefect(f)
    /\ f.stage \notin RayTracingStages
    /\ f.type.result.k = "void"
    /\ f.params # <<>>
    /\ \A j \in 1..Len(f.params) :
          /\ ~IsOutTypeBase(f.params[j].type)
          /\ f.params[j].layout.k = "var"
          /\ IsPlainNest(f.params[j].type, f.params[j].layout, f.params[j].layout.typeLayout)

\* C27: on an entry point whose parameters are in parameters of any nesting
\* of arrays and structs over leaves the pass does not abort (no missing
\* struct type in getSubscriptVal, no failed arity assertion, no internal
\* error), and once it has returned, the value that user code has in the
\* place of each parameter has the parameter's declared type.
NestedInputMaterialization ==
    \A e \in 1..Len(orig) :
        (target = e /\ HasNestedInputs(orig[e]))
        => /\ pc # "aborted"
           /\ e \in completed
              => \A j \in 1..Len(orig[e].params) :
                    \A v \in ReplacementsOf(e, j) : ty[v] = orig[e].params[j].type


\* The stream parameters of function e that the call with id id of user
\* code appended to.
StreamOfCall(e, id) ==
    {j \in StreamParams(e) :
        \E b \in 1..Len(orig[e].blocks) : \E k \in 1..Len(orig[e].blocks[b]) :
            /\ orig[e].blocks[b][k].id = id
            /\ orig[e].blocks[b][k].args[2] = orig[e].params[j].id}

\* The output globals of the requests for stream parameter j of function e.
StreamGlobals(e, j) ==
    UNION {{GlobalOf(i, l).id : l \in 1..Len(LeavesOf(log[i]))} :
             i \in ParamRequests(e, j, "VaryingOutput")}

\* C28: once the pass has returned on an entry point, the new stores right
\* before a call that appends to a stream go to the globals of the stream
\* parameter that the call appends to, and none goes to a global of
\* another stream parameter.
StreamsKeptApart ==
    \A e \in completed :
        \A b \in 1..Len(funcs[e].blocks) : \A p \in 1..Len(funcs[e].blocks[b]) :
            IsAppend(funcs[e].blocks[b][p])
            => \A q \in RunBefore(e, b, p) :
                  \A j \in StreamParams(e) :
                      (/\ funcs[e].blocks[b][q].op = "store"
                       /\ funcs[e].blocks[b][q].args[1] \in StreamGlobals(e, j))
                      => j \in StreamOfCall(e, funcs[e].blocks[b][p].id)


\* The usage that a type layout records for a kind, 0 when it records none.
UsageOf(typeLayout, kind) ==
    IF HasResourceInfo(typeLayout.res, kind) THEN FindResourceInfo(typeLayout.res, kind).count
    ELSE 0

RECURSIVE IsCumulative(_, _, _)

\* Every array level of the type layout of a leaf under arrays of counts
\* (outermost first) records the count of the array times the usage of its
\* element: the leaf's usage times the product of the counts of the arrays
\* from this level inwards.
IsCumulative(counts, typeLayout, kind) ==
    IF counts = <<>> THEN TRUE
    ELSE /\ typeLayout.k = "array"
         /\ UsageOf(typeLayout, kind) = Head(counts) * UsageOf(typeLayout.elementTypeLayout, kind)
         /\ IsCumulative(Tail(counts), typeLayout.elementTypeLayout, kind)

\* C29: the type layout of the global of a leaf under outer arrays records
\* a cumulative usage for the kind asked for: the level of the outermost
\* array records c * n1 * ... * nk, c being the usage of the leaf, and each
\* level in between records c times the product of the counts of the arrays
\* from that level inwards.
CumulativeResourceUsage ==
    \A i \in 1..Len(log) :
        \A j \in 1..Len(LeavesOf(log[i])) :
            IsCumulative(LeavesOf(log[i])[j].counts, GlobalOf(i, j).layout[1].typeLayout,
                         log[i].kind)

\* The parameters of function e that an instruction of its body has for an
\* operand.
UsedParams(e) ==
    {j \in 1..Len(funcs[e].params) :
        \E b \in 1..Len(funcs[e].blocks) : \E k \in 1..Len(funcs[e].blocks[b]) :
            \E a \in 1..Len(funcs[e].blocks[b][k].args) :
                funcs[e].blocks[b][k].args[a] = funcs[e].params[j].id}

\* C30: when the loop over the parameters has ended and the parameters of
\* the entry block are about to be deleted, no instruction of the body has
\* a parameter for an operand, whatever the parameter was: in, out, inout,
\* a stream, or lifted in a ray-tracing stage; and the step that deletes
\* them leaves the body as it is.
NoUseAtDeletion ==
    [][(pc = "params" /\ pc' = "idle")
       => /\ funcs[cur].blocks # <<>> => UsedParams(cur) = {}
          /\ funcs'[cur].blocks = funcs[cur].blocks
          /\ funcs[cur].blocks # <<>> => funcs'[cur].params = <<>>]_vars

\* The loop has ended on a geometry entry point whose body used its two
\* parameters, a stream and an inout parameter.
NoUseAtDeletionWitness ==
    /\ pc = "params"
    /\ pp = 3
    /\ Len(funcs[cur].params) = 2
    /\ 1 \in StreamParams(cur)
    /\ 2 \in OutParams(cur)
    /\ UsesOf(cur, 1) # {}
    /\ UsesOf(cur, 2) # {}
    /\ UsedParams(cur) = {}

====
